---------------------------- MODULE Spec2Model ----------------------------
(***************************************************************************)
(* A model of the nonlinear-crystal phase-matching solver                  *)
(* (src/configuration.py, src/simulation.py).                              *)
(*                                                                         *)
(* Numbers.  The program computes in binary floating point.  The model     *)
(* computes in decimal fixed point: a real x is the integer x * Scale,     *)
(* every product and quotient being rounded toward zero to one unit        *)
(* (1e-6), which takes the place of the floating-point rounding.           *)
(*   refractive index, weight, efficiency, mismatch : units of 1e-6        *)
(*   angle                                          : micro-radians        *)
(*   angle in degrees                               : micro-degrees        *)
(*   wavelength                                     : picometres, so that  *)
(*        a wavelength in nm is wl / 1000 and in micrometres wl / Scale    *)
(*   temperature                                    : units of 0.01 deg C  *)
(* An undefined value (numpy's nan) is the record NaN.                     *)
(***************************************************************************)
EXTENDS Integers, Sequences, FiniteSets, TLC

VARIABLES cfg, solver, theta_dict, pc, out, probe

vars == <<cfg, solver, theta_dict, pc, out, probe>>

---------------------------------------------------------------------------
(* Fixed-point arithmetic *)

Scale == 10^6

\* The elements of a sequence
Range(seq) == {seq[i] : i \in 1..Len(seq)}

Abs(x) == IF x < 0 THEN -x ELSE x

\* A Python value that is a number, numpy's nan, or None.
Num(x) == [tag |-> "num", v |-> x]

NaN == [tag |-> "nan", v |-> 0]

None == [tag |-> "none", v |-> 0]

\* One doubling step of MulDivQR: from <<q, r>> for a * (b \div 2) to <<q, r>>
\* for a * b.
MulDivStep(h, a, b, d) ==
    <<2 * h[1] + (b % 2) * (a \div d) + ((2 * h[2] + (b % 2) * (a % d)) \div d),
      (2 * h[2] + (b % 2) * (a % d)) % d>>

\* <<q, r>> with a * b = q * d + r and 0 <= r < d, for a, b >= 0 and
\* 0 < d < 7 * 10^8, without forming the product a * b.
RECURSIVE MulDivQR(_, _, _)
MulDivQR(a, b, d) ==
    IF b = 0 THEN <<0, 0>>
    ELSE MulDivStep(MulDivQR(a, b \div 2, d), a, b, d)

\* a * b / d rounded toward zero, any signs.
MulDiv(a, b, d) ==
    LET q == MulDivQR(Abs(a), Abs(b), Abs(d))[1]
    IN  IF ((a < 0) # (b < 0)) # (d < 0) THEN -q ELSE q

\* a * b of two fixed-point numbers, for |a| * |b| < 2 * 10^15.
FMulN(a, b) ==
    LET ah == a \div 1000
        al == a % 1000
        bh == b \div 1000
        bl == b % 1000
        m  == ah * bl + al * bh
    IN  ah * bh + (m \div 1000) + (((m % 1000) * 1000 + al * bl) \div 1000000)

Square(a) == FMulN(Abs(a), Abs(a))

\* 1 where a and b have the same sign, -1 where they do not
Sign(a, b) == IF (a < 0) = (b < 0) THEN 1 ELSE -1

FMul(a, b) == Sign(a, b) * FMulN(Abs(a), Abs(b))

\* a / b of two fixed-point numbers, a >= 0, 0 < b < 2 * 10^7: long division,
\* two decimal digits at a time.
FDivN(a, b) ==
    LET q0 == a \div b
        r0 == a % b
        q1 == (r0 * 100) \div b
        r1 == (r0 * 100) % b
        q2 == (r1 * 100) \div b
        r2 == (r1 * 100) % b
        q3 == (r2 * 100) \div b
    IN  q0 * 1000000 + q1 * 10000 + q2 * 100 + q3

\* One decimal digit of a long division by b < 4 * 10^8: from <<q, r>> to
\* <<10 q + digit, remainder>>, the digit found as 5 * (2 r / b) + ...
DigitStep(qr, b) ==
    <<10 * qr[1] + 5 * ((2 * qr[2]) \div b) + (5 * ((2 * qr[2]) % b)) \div b,
      (5 * ((2 * qr[2]) % b)) % b>>

\* a / b of two fixed-point numbers, a >= 0, 2 * 10^7 <= b < 4 * 10^8: long
\* division, one decimal digit at a time.
FDivWide(a, b) ==
    DigitStep(DigitStep(DigitStep(DigitStep(DigitStep(DigitStep(
        <<a \div b, a % b>>, b), b), b), b), b), b)[1]

\* a / b of two fixed-point numbers; beyond 4 * 10^8 the divisor is taken
\* to its first six digits or more (the dividends there are below 2 * 10^6).
FDiv(a, b) ==
    IF Abs(b) < 20000000 THEN Sign(a, b) * FDivN(Abs(a), Abs(b))
    ELSE IF Abs(b) < 400000000 THEN Sign(a, b) * FDivWide(Abs(a), Abs(b))
    ELSE Sign(a, b) * ((Abs(a) * 1000) \div (Abs(b) \div 1000))

\* Newton's iteration for the square root of a fixed-point number x >= 0.
\* It starts above the root and descends; it stops when it no longer does.
RECURSIVE SqrtIter(_, _, _)
SqrtIter(x, r, next) ==
    IF next >= r THEN r ELSE SqrtIter(x, next, (next + FDiv(x, next)) \div 2)

\* np.sqrt
FSqrt(x) == IF x <= 0 THEN 0 ELSE SqrtIter(x, x + Scale, (x + Scale) \div 2 + 1)

\* a / d rounded toward zero
DivT(a, d) == IF a < 0 THEN -((-a) \div d) ELSE a \div d

Pi == 3141593

PiHalf == 1570796

\* The Taylor series of cos and sin, term by term:
\* term(k) = - term(k - 1) * x^2 / ((k + 1) * (k + 2)).
RECURSIVE Series(_, _, _, _)
Series(term, x2, k, last) ==
    IF k > last \/ term = 0 THEN 0
    ELSE term + Series(-DivT(FMul(term, x2), (k + 1) * (k + 2)), x2, k + 2, last)

\* The angle x brought into [-Pi, Pi].
Reduce(x) ==
    LET m == x % (2 * Pi)
    IN  IF m > Pi THEN m - 2 * Pi ELSE m

\* np.cos
Cos(x) == LET y == Reduce(x) IN Series(Scale, FMul(y, y), 0, 26)

\* np.sin
Sin(x) == LET y == Reduce(x) IN Series(y, FMul(y, y), 1, 27)

\* np.rad2deg
Rad2Deg(x) == FDiv(x * 180, Pi)

\* a / d rounded to the nearest integer
DivR(a, d) == IF a < 0 THEN -((-a + d \div 2) \div d) ELSE (a + d \div 2) \div d

\* np.deg2rad, rounded to the nearest micro-radian so that
\* deg2rad(rad2deg(x)) = x as in floating point
Deg2Rad(d) == DivR(FMul(d, Pi), 180)

\* The series of arctan, term by term, for a small argument.
RECURSIVE ArctanSeries(_, _, _)
ArctanSeries(power, x2, k) ==
    IF power = 0 \/ k > 15 THEN 0
    ELSE DivT(power, k) + ArctanSeries(-FMul(power, x2), x2, k + 2)

\* arctan(x / 2) from arctan(x): the argument x / (1 + sqrt(1 + x^2))
HalfAngle(x) == FDiv(x, Scale + FSqrt(Scale + FMul(x, x)))

\* arctan(x) for 0 <= x <= 1, the angle halved twice before the series
ArctanUnit(x) ==
    LET y == HalfAngle(HalfAngle(x))
    IN  4 * ArctanSeries(y, FMul(y, y), 1)

\* np.arctan(num / den) for num, den >= 0; den = 0 stands for a tangent
\* beyond every bound.
Arctan(num, den) ==
    IF num <= den THEN (IF den = 0 THEN 0 ELSE ArctanUnit(FDiv(num, den)))
    ELSE PiHalf - ArctanUnit(FDiv(den, num))

\* f"{x:.4f}": x rounded to four decimals, a tie going to the even digit
Format4f(x) ==
    LET q == Abs(x) \div 100
        r == Abs(x) % 100
        n == IF r > 50 \/ (r = 50 /\ q % 2 = 1) THEN q + 1 ELSE q
    IN  IF x < 0 THEN -(n * 100) ELSE n * 100

\* A faulty sinc^2: (sin(pi x) / x)^2, the factor pi left out of the divisor
SincSquaredUnnormalised(x) ==
    IF x = 0 THEN Scale
    ELSE IF Abs(x) >= 500 * Scale THEN 0
    ELSE FMul(FDiv(Sin(FMul(Pi, Abs(x))), Abs(x)), FDiv(Sin(FMul(Pi, Abs(x))), Abs(x)))

\* np.sinc(x)**2 = (sin(pi x) / (pi x))^2; beyond |x| = 500 it is below
\* one unit.
SincSquared(x) ==
    IF x = 0 THEN Scale
    ELSE IF Abs(x) >= 500 * Scale THEN 0
    ELSE Square(FDiv(Sin(FMul(Pi, Abs(x))), FMul(Pi, Abs(x))))

---------------------------------------------------------------------------
(* src/configuration.py: SimulationConfig *)

\* 1 / (1/a + 1/b) of two wavelengths
Harmonic(a, b) == MulDiv(a, b, a + b)

\* A faulty constructor: the wavelength2 argument kept under SHG
SimulationConfigKeepsSecond(crystal_name, wavelength, temperature, plane, process_type, wavelength2, sellmeier_source) ==
    LET w2 == IF wavelength2.tag = "none" THEN wavelength ELSE wavelength2.v
    IN  [crystal_name      |-> crystal_name,
         process_type      |-> process_type,
         sellmeier_source  |-> sellmeier_source,
         wavelength1_nm    |-> wavelength,
         wavelength2_nm    |-> w2,
         wavelength_out_nm |-> IF process_type = "SHG" THEN wavelength \div 2
                               ELSE Harmonic(wavelength, w2),
         wavelength_nm     |-> wavelength,
         plane             |-> plane,
         temperature       |-> temperature]

\* SimulationConfig.__init__; wavelength2 is None or Num(wavelength).
SimulationConfig(crystal_name, wavelength, temperature, plane, process_type, wavelength2, sellmeier_source) ==
    LET w2 == IF wavelength2.tag = "none" \/ process_type = "SHG"
              THEN wavelength ELSE wavelength2.v
    IN  [crystal_name      |-> crystal_name,
         process_type      |-> process_type,
         sellmeier_source  |-> sellmeier_source,
         wavelength1_nm    |-> wavelength,
         wavelength2_nm    |-> w2,
         wavelength_out_nm |-> IF process_type = "SHG" THEN wavelength \div 2
                               ELSE Harmonic(wavelength, w2),
         wavelength_nm     |-> wavelength,
         plane             |-> plane,
         temperature       |-> temperature]

\* SimulationConfig.crystal_db: the point group and the nonlinear tensor
\* (pm/V) of each crystal
crystal_db ==
    [BBO  |-> [group |-> "3m",
               d |-> [d22 |-> 2200000, d31 |-> 40000, d15 |-> 40000, d11 |-> 20000]],
     KDP  |-> [group |-> "4bar2m", d |-> [d36 |-> 390000, d14 |-> 390000]],
     DKDP |-> [group |-> "4bar2m", d |-> [d36 |-> 370000, d14 |-> 370000]],
     CLBO |-> [group |-> "4bar2m", d |-> [d36 |-> 950000, d14 |-> 950000]],
     LBO  |-> [group |-> "mm2",
               d |-> [d31 |-> 1050000, d32 |-> 850000, d33 |-> 50000,
                      d15 |-> 1050000, d24 |-> 850000]],
     KTP  |-> [group |-> "mm2",
               d |-> [d31 |-> 2200000, d32 |-> 3700000, d33 |-> 14600000,
                      d15 |-> 2200000, d24 |-> 3700000]]]

\* sqrt(a + b / (l2 - c) - d * l2), the form most of the dispersion formulas take
Sellmeier(a, b, c, d, l2) == FSqrt(a + FDiv(b, l2 - c) - FMul(d, l2))

\* k * 1e-7 * dtemp as an index, dt being dtemp in units of 0.01 degree
Thermal(k, dt) == DivT(k * dt, 1000)

\* SimulationConfig._get_indices_clbo_oxide
GetIndicesClboOxide(w, dt) ==
    LET l2  == FMul(w, w)
        n_x == Sellmeier(2214500, 8900, 20510, 14130, l2) - Thermal(19, dt)
        n_z == Sellmeier(2058800, 8660, 12020, 6070, l2) - Thermal(5, dt)
    IN  [n_x |-> n_x, n_y |-> n_x, n_z |-> n_z]

\* SimulationConfig._get_indices_clbo_fujing
GetIndicesClboFujing(w, dt) ==
    LET l2  == FMul(w, w)
        n_o == Sellmeier(2210400, 10180, 14240, 12580, l2)
        n_e == Sellmeier(2058800, 8380, 13630, 6070, l2)
    IN  [n_x |-> n_o - Thermal(19, dt),
         n_y |-> n_o - Thermal(19, dt),
         n_z |-> n_e - Thermal(5, dt)]

\* (dtemp + c * dtemp^2) * b * 1e-6 as an index: the thermal term of the
\* Thorlabs formulas, with dtemp + c * dtemp^2 formed as dtemp * (1 + c * dtemp).
ThermalQuadratic(c, b, dt) ==
    LET d == dt * 10000
        a == FMul(d, Scale + FMul(c, d))
    IN  DivT(FMul(DivT(a, 1000), b), 1000)

\* SimulationConfig._get_indices_lbo_thorlabs
GetIndicesLboThorlabs(w, dt) ==
    LET l2 == FMul(w, w)
        l4 == FMul(l2, l2)
        l6 == FMul(l4, l2)
    IN  [n_x |-> FSqrt(2454200 + FDiv(11250, l2 - 11350) - FMul(13880, l2))
                 + ThermalQuadratic(29130, 2300000 - FMul(3760000, w), dt),
         n_y |-> FSqrt(2539000 + FDiv(12770, l2 - 11890) - FMul(18490, l2)
                       + FMul(43, l4) - FMul(29, l6))
                 + ThermalQuadratic(-3289, FMul(6010000, w) - 19400000, dt),
         n_z |-> FSqrt(2586500 + FDiv(13100, l2 - 12230) - FMul(18620, l2)
                       + FMul(46, l4) - FMul(33, l6))
                 + ThermalQuadratic(-7449, FMul(1500000, w) - 9700000, dt)]

\* SimulationConfig._get_indices_lbo_fujing
GetIndicesLboFujing(w, dt) ==
    LET l2 == FMul(w, w)
        l4 == FMul(l2, l2)
    IN  [n_x |-> FSqrt(2454140 + FDiv(11249, l2 - 11350) - FMul(14591, l2)
                       - FMul(66, l4)) - Thermal(93, dt),
         n_y |-> FSqrt(2539070 + FDiv(12711, l2 - 12523) - FMul(18540, l2)
                       + FMul(200, l4)) - Thermal(136, dt),
         n_z |-> FSqrt(2586179 + FDiv(13099, l2 - 11893) - FMul(17968, l2)
                       - FMul(226, l4))
                 - DivT(FMul(6300000 + FMul(2100000, w), dt * 10000), Scale)]

\* SimulationConfig._get_indices_default; a crystal it does not know leaves
\* n_x unbound, which raises.
GetIndicesDefault(crystal_name, w, dt) ==
    LET l2 == FMul(w, w)
        l4 == FMul(l2, l2)
    IN  CASE crystal_name = "BBO" ->
               LET n_x == FSqrt(FDiv(FMul(902910, l2), l2 - 3926)
                                + FDiv(FMul(831550, l2), l2 - 18786)
                                + FDiv(FMul(765360, l2), l2 - 60010000) + Scale)
                          - Thermal(166, dt)
                   n_z == FSqrt(FDiv(FMul(1151075, l2), l2 - 7142)
                                + FDiv(FMul(218030, l2), l2 - 22590)
                                + FDiv(FMul(656000, l2), l2 - 263000000) + Scale)
                          - Thermal(93, dt)
               IN  [n_x |-> n_x, n_y |-> n_x, n_z |-> n_z]
          [] crystal_name = "KTP" ->
               [n_x |-> Sellmeier(3006500, 39010, 42510, 13270, l2) + Thermal(110, dt),
                n_y |-> Sellmeier(3033300, 41540, 45470, 14080, l2) + Thermal(130, dt),
                n_z |-> Sellmeier(3313400, 56940, 56580, 16820, l2) + Thermal(160, dt)]
          [] crystal_name = "KDP" ->
               LET n_x == FSqrt(2259276 + FDiv(10090, l2 - 12943)
                                + FDiv(FMul(13005220, l2), l2 - 400000000))
                   n_z == FSqrt(2132668 + FDiv(8637, l2 - 12281)
                                + FDiv(FMul(3227992, l2), l2 - 400000000))
               IN  [n_x |-> n_x, n_y |-> n_x, n_z |-> n_z]
          [] crystal_name = "DKDP" ->
               LET n_x == FSqrt(1957554 + FDiv(FMul(290139, l2), l2 - 28140)
                                - FMul(28244, l2) + FMul(4978, l4))
                   n_z == FSqrt(1505780 + FDiv(FMul(627603, l2), l2 - 13156)
                                - FMul(10541, l2) + FMul(2244, l4))
               IN  [n_x |-> n_x, n_y |-> n_x, n_z |-> n_z]

\* SimulationConfig.get_indices computed from the formulas: w is the
\* wavelength in micrometres, dt the temperature above 20 degrees.
GetIndicesAt(crystal_name, sellmeier_source, w, dt) ==
    IF crystal_name = "CLBO"
    THEN IF sellmeier_source = "Fujing" THEN GetIndicesClboFujing(w, dt)
         ELSE GetIndicesClboOxide(w, dt)
    ELSE IF crystal_name = "LBO"
    THEN IF sellmeier_source = "Fujing" THEN GetIndicesLboFujing(w, dt)
         ELSE GetIndicesLboThorlabs(w, dt)
    ELSE GetIndicesDefault(crystal_name, w, dt)

\* SimulationConfig.get_indices(target_wavelength, target_temperature), the
\* arguments being None or Num(value).
GetIndices(c, target_wavelength, target_temperature) ==
    LET wavelength == IF target_wavelength.tag # "none" THEN target_wavelength.v
                      ELSE c.wavelength_nm
        dtemp      == IF target_temperature.tag # "none" THEN target_temperature.v - 2000
                      ELSE c.temperature - 2000
    IN  GetIndicesAt(c.crystal_name, c.sellmeier_source, wavelength, dtemp)

---------------------------------------------------------------------------
(* Mode identifiers.  The program's identifier is a string such as         *)
(*   "O (1064nm) + E (532nm) -> E (355nm) (Type II)";                      *)
(* the model's is the sequence of its tokens, each a pair <<kind, number>>: *)
(* a polarization letter <<"O", 0>> (O, E, X, Y, Z), a wavelength label    *)
(* <<"nm", 1064>> standing for "(1064nm)", the separator <<"+", 0>>, the   *)
(* arrow <<"->", 0>> and the tag <<"Type", 2>> standing for "(Type II)".   *)

\* f"{x:.0f}" of a wavelength: the nearest whole number of nm, a tie going to
\* the even one.
Format0f(wl) ==
    LET q == wl \div 1000
        r == wl % 1000
    IN  IF r > 500 \/ (r = 500 /\ q % 2 = 1) THEN q + 1 ELSE q

ModeName(p1, l1, p2, l2, po, lo, type) ==
    << <<p1, 0>>, <<"nm", l1>>, <<"+", 0>>, <<p2, 0>>, <<"nm", l2>>,
       <<"->", 0>>, <<po, 0>>, <<"nm", lo>>, <<"Type", type>> >>

\* kind in text
Contains(text, kind) == \E i \in 1..Len(text) : text[i][1] = kind

\* text.index(kind), kind being in text
IndexOf(text, kind) ==
    CHOOSE i \in 1..Len(text) :
        text[i][1] = kind /\ \A j \in 1..(i - 1) : text[j][1] # kind

\* text.split(kind): the parts between the tokens of that kind
RECURSIVE Split(_, _)
Split(text, kind) ==
    IF ~Contains(text, kind) THEN <<text>>
    ELSE LET i == IndexOf(text, kind)
         IN  <<SubSeq(text, 1, i - 1)>> \o Split(SubSeq(text, i + 1, Len(text)), kind)

\* text.split('(')[0]: what precedes the first parenthesis, a wavelength label
\* and a type tag being the tokens that open one
BeforeParenthesis(text) ==
    LET opens == {i \in 1..Len(text) : text[i][1] \in {"nm", "Type"}}
    IN  IF opens = {} THEN text
        ELSE SubSeq(text, 1, (CHOOSE i \in opens : \A j \in opens : i <= j) - 1)

\* re.findall(r'(\d+)nm', text): the wavelength labels, in order
RECURSIVE FindWavelengths(_)
FindWavelengths(text) ==
    IF text = <<>> THEN <<>>
    ELSE (IF Head(text)[1] = "nm" THEN <<Head(text)[2]>> ELSE <<>>)
         \o FindWavelengths(Tail(text))

\* The sequence without its repeated elements: the keys of a dict built from it.
RECURSIVE Distinct(_)
Distinct(seq) ==
    IF seq = <<>> THEN <<>>
    ELSE LET front == Distinct(SubSeq(seq, 1, Len(seq) - 1))
             last  == seq[Len(seq)]
         IN  IF \E i \in 1..Len(front) : front[i] = last THEN front
             ELSE Append(front, last)

---------------------------------------------------------------------------
(* src/simulation.py: Solver *)

\* tolerance = 1.0 nm of the wavelength-to-beam binding
tolerance == 1000

\* the residual limit 1e-4 of robust_solve
ResidualLimit == 100

\* Solver.plane_config: (static axis, cos^2 axis, sin^2 axis)
plane_config ==
    [XZ |-> <<"n_y", "n_z", "n_x">>,
     YZ |-> <<"n_x", "n_z", "n_y">>,
     XY |-> <<"n_z", "n_x", "n_y">>]

\* ne_func, line 130: sqrt(n_cos^2 n_sin^2 / (n_cos^2 cos^2 + n_sin^2 sin^2)),
\* given the squares of the indices and the cosine and sine of theta
Mixer(n_cos2, n_sin2, cos_theta, sin_theta) ==
    FSqrt(FDiv(FMul(n_cos2, n_sin2),
               FMul(n_cos2, FMul(cos_theta, cos_theta))
               + FMul(n_sin2, FMul(sin_theta, sin_theta))))

\* Solver.ne_func(n_cos, n_sin)(theta)
ne_func(n_cos, n_sin, theta) ==
    Mixer(FMul(n_cos, n_cos), FMul(n_sin, n_sin), Cos(theta), Sin(theta))

\* The mode list Solver.__init__ builds
ModeNames(c) ==
    IF c.process_type = "SHG"
    THEN LET w  == Format0f(c.wavelength1_nm)
             w2 == Format0f(c.wavelength_out_nm)
         IN  << ModeName("O", w, "O", w, "E", w2, 1),
                ModeName("E", w, "E", w, "O", w2, 1),
                ModeName("O", w, "E", w, "E", w2, 2),
                ModeName("O", w, "E", w, "O", w2, 2) >>
    ELSE LET l1 == Format0f(c.wavelength1_nm)
             l2 == Format0f(c.wavelength2_nm)
             lo == Format0f(c.wavelength_out_nm)
         IN  << ModeName("O", l1, "O", l2, "E", lo, 1),
                ModeName("E", l1, "E", l2, "O", lo, 1),
                ModeName("O", l1, "E", l2, "E", lo, 2),
                ModeName("O", l2, "E", l1, "E", lo, 2),
                ModeName("O", l1, "E", l2, "O", lo, 2),
                ModeName("O", l2, "E", l1, "O", lo, 2) >>

\* Solver.__init__: the fields of the solver built on configuration c
SolverInit(c) ==
    [key_static  |-> plane_config[c.plane][1],
     key_cos     |-> plane_config[c.plane][2],
     key_sin     |-> plane_config[c.plane][3],
     weight1     |-> IF c.process_type = "SHG" THEN 500000
                     ELSE FDiv(c.wavelength_out_nm, c.wavelength1_nm),
     weight2     |-> IF c.process_type = "SHG" THEN 500000
                     ELSE FDiv(c.wavelength_out_nm, c.wavelength2_nm),
     mode_names  |-> ModeNames(c),
     crystal_db  |-> crystal_db]

\* The keys of Solver.equations_deltan, in the order the dict holds them
EquationModes(s) == Distinct(s.mode_names)

\* extract_xyz_pol(text): the first of X, Y, Z the text contains, or "" (None)
extract_xyz_pol(text) ==
    IF Contains(text, "X") THEN "X"
    ELSE IF Contains(text, "Y") THEN "Y"
    ELSE IF Contains(text, "Z") THEN "Z"
    ELSE ""

\* xyz_to_key
xyz_to_key == [X |-> "n_x", Y |-> "n_y", Z |-> "n_z"]

\* The polarizations of the input part in the order they first occur:
\* input_pols after the sort on the index.
InputPols(input_part) ==
    LET hasO == Contains(input_part, "O")
        hasE == Contains(input_part, "E")
    IN  IF hasO /\ hasE
        THEN IF IndexOf(input_part, "O") < IndexOf(input_part, "E")
             THEN <<"O", "E">> ELSE <<"E", "O">>
        ELSE IF hasO THEN <<"O">>
        ELSE IF hasE THEN <<"E">>
        ELSE <<>>

\* pol_out = 'E' if 'E' in output_part.split('(')[0] else 'O'
OutputPol(output_part) ==
    IF Contains(BeforeParenthesis(output_part), "E") THEN "E" ELSE "O"

\* The outcome of a delta_n call that raises
Raised(exception) ==
    [err |-> exception, value |-> NaN, w1 |-> 0, w2 |-> 0,
     n1 |-> 0, n2 |-> 0, n_out |-> 0, actual_wl1 |-> 0, actual_wl2 |-> 0,
     pol1 |-> "", pol2 |-> "", pol_out |-> ""]

\* The outcome of a delta_n call that returns: delta_n_value = w1 * n1 +
\* w2 * n2 - n_out (nan where an index is), with the weights, indices and
\* wavelengths the call applied to each beam.
Returned(is_nan, w1, n1, w2, n2, n_out, actual_wl1, actual_wl2, pol1, pol2, pol_out) ==
    [err |-> "",
     value |-> IF is_nan THEN NaN ELSE Num(FMul(w1, n1) + FMul(w2, n2) - n_out),
     w1 |-> w1, w2 |-> w2, n1 |-> n1, n2 |-> n2, n_out |-> n_out,
     actual_wl1 |-> actual_wl1, actual_wl2 |-> actual_wl2,
     pol1 |-> pol1, pol2 |-> pol2, pol_out |-> pol_out]

\* The index of a beam of polarization pol: the static index for O, the
\* mixer's value at theta for E.
BeamIndex(s, indices, pol, theta) ==
    IF pol = "O" THEN indices[s.key_static]
    ELSE ne_func(indices[s.key_cos], indices[s.key_sin], theta.v)

\* A faulty X/Y/Z branch: the output beam's index read through the active
\* plane (the axis normal to it) instead of the axis its label names
DeltaNXYZByPlane(s, pol1, pol2, pol_out, wl1, wl2, indices_w1, indices_w2, indices_out) ==
    IF pol1 = "" \/ pol2 = "" \/ pol_out = "" THEN Raised("KeyError")
    ELSE Returned(FALSE, s.weight1, indices_w1[xyz_to_key[pol1]],
                  s.weight2, indices_w2[xyz_to_key[pol2]],
                  indices_out[s.key_static], wl1, wl2, pol1, pol2, pol_out)

\* delta_n, lines 209-225 and 305: the X/Y/Z labels
DeltaNXYZ(s, pol1, pol2, pol_out, wl1, wl2, indices_w1, indices_w2, indices_out) ==
    IF pol1 = "" \/ pol2 = "" \/ pol_out = "" THEN Raised("KeyError")
    ELSE Returned(FALSE, s.weight1, indices_w1[xyz_to_key[pol1]],
                  s.weight2, indices_w2[xyz_to_key[pol2]],
                  indices_out[xyz_to_key[pol_out]], wl1, wl2, pol1, pol2, pol_out)

\* A faulty O/E branch: an omitted theta taken as 0 instead of refused
DeltaNOEDefaultTheta(c, s, theta, same_order, pol1, pol2, pol_out, wl1, wl2, wl_out, indices_beam1, indices_beam2, indices_out) ==
    Returned(theta.tag = "nan" /\ (pol1 = "E" \/ pol2 = "E" \/ pol_out = "E"),
             IF c.process_type = "SHG" THEN 500000
             ELSE FDiv(wl_out, IF same_order THEN wl1 ELSE wl2),
             BeamIndex(s, indices_beam1, pol1, theta),
             IF c.process_type = "SHG" THEN 500000
             ELSE FDiv(wl_out, IF same_order THEN wl2 ELSE wl1),
             BeamIndex(s, indices_beam2, pol2, theta),
             BeamIndex(s, indices_out, pol_out, theta),
             IF same_order THEN wl1 ELSE wl2,
             IF same_order THEN wl2 ELSE wl1,
             pol1, pol2, pol_out)

\* delta_n, lines 270-300 and 308: the O/E labels, beam 1 bound to wl1
\* (same_order) or to wl2
DeltaNOE(c, s, theta, same_order, pol1, pol2, pol_out, wl1, wl2, wl_out, indices_beam1, indices_beam2, indices_out) ==
    IF theta.tag = "none" /\ (pol1 = "E" \/ pol2 = "E" \/ pol_out = "E")
    THEN Raised("ValueError")
    ELSE Returned(theta.tag = "nan" /\ (pol1 = "E" \/ pol2 = "E" \/ pol_out = "E"),
                  IF c.process_type = "SHG" THEN 500000
                  ELSE FDiv(wl_out, IF same_order THEN wl1 ELSE wl2),
                  BeamIndex(s, indices_beam1, pol1, theta),
                  IF c.process_type = "SHG" THEN 500000
                  ELSE FDiv(wl_out, IF same_order THEN wl2 ELSE wl1),
                  BeamIndex(s, indices_beam2, pol2, theta),
                  BeamIndex(s, indices_out, pol_out, theta),
                  IF same_order THEN wl1 ELSE wl2,
                  IF same_order THEN wl2 ELSE wl1,
                  pol1, pol2, pol_out)

\* delta_n, lines 201-300: the mode name parsed and the branch taken
DeltaNParsed(c, s, mode_name, parts, theta, wl1, wl2, wl_out, indices_w1, indices_w2, indices_out) ==
    IF Len(parts) # 2 THEN Raised("ValueError")
    ELSE IF \E k \in {"X", "Y", "Z"} : Contains(mode_name, k)
    THEN LET input_beams == Split(parts[1], "+")
         IN  DeltaNXYZ(s, extract_xyz_pol(input_beams[1]),
                       IF Len(input_beams) > 1 THEN extract_xyz_pol(input_beams[2])
                       ELSE extract_xyz_pol(input_beams[1]),
                       extract_xyz_pol(parts[2]),
                       wl1, wl2, indices_w1, indices_w2, indices_out)
    ELSE IF Len(FindWavelengths(mode_name)) < 3 THEN Raised("ValueError")
    ELSE IF InputPols(parts[1]) = <<>> THEN Raised("IndexError")
    ELSE LET same_order == Abs(FindWavelengths(mode_name)[1] * 1000 - wl1) < tolerance
             input_pols == InputPols(parts[1])
         IN  DeltaNOE(c, s, theta, same_order,
                      input_pols[1],
                      IF Len(input_pols) > 1 THEN input_pols[2] ELSE input_pols[1],
                      OutputPol(parts[2]),
                      wl1, wl2, wl_out,
                      IF same_order THEN indices_w1 ELSE indices_w2,
                      IF same_order THEN indices_w2 ELSE indices_w1,
                      indices_out)

\* delta_n, lines 189-191: the indices at the three wavelengths in effect
DeltaNAt(c, s, mode_name, theta, wl1, wl2, wl_out, temp) ==
    DeltaNParsed(c, s, mode_name, Split(mode_name, "->"), theta, wl1, wl2, wl_out,
                 GetIndices(c, Num(wl1), Num(temp)),
                 GetIndices(c, Num(wl2), Num(temp)),
                 GetIndices(c, Num(wl_out), Num(temp)))

\* Solver.delta_n(mode_name, theta, wavelength1, wavelength2, wavelength_out,
\* temperature): the value returned (err = "") or the exception raised.
delta_n(c, s, mode_name, theta, wavelength1, wavelength2, wavelength_out, temperature) ==
    DeltaNAt(c, s, mode_name, theta,
             IF wavelength1.tag # "none" THEN wavelength1.v ELSE c.wavelength1_nm,
             IF wavelength2.tag # "none" THEN wavelength2.v ELSE c.wavelength2_nm,
             IF wavelength_out.tag # "none" THEN wavelength_out.v ELSE c.wavelength_out_nm,
             IF temperature.tag # "none" THEN temperature.v ELSE c.temperature)

\* equations_deltan[mode_name](theta): the mismatch at the configured
\* wavelengths and temperature
Equation(c, s, mode_name, theta) ==
    delta_n(c, s, mode_name, Num(theta), None, None, None, None).value.v

\* Of two neighbouring angles, the one where the equation is nearer zero
Nearer(lo, hi, flo, fhi) == IF Abs(flo) <= Abs(fhi) THEN lo ELSE hi

\* The angle of [lo, hi] at which the equation changes sign, found by halving
\* the interval; flo is the equation's value at lo, fmid its value at mid.
RECURSIVE Bisect(_, _, _, _, _, _)
BisectStep(c, s, mode_name, lo, mid, hi, flo, fmid) ==
    IF (flo <= 0 /\ fmid >= 0) \/ (flo >= 0 /\ fmid <= 0)
    THEN Bisect(c, s, mode_name, lo, mid, flo)
    ELSE Bisect(c, s, mode_name, mid, hi, fmid)

Bisect(c, s, mode_name, lo, hi, flo) ==
    IF hi - lo <= 1
    THEN Nearer(lo, hi, flo, Equation(c, s, mode_name, hi))
    ELSE BisectStep(c, s, mode_name, lo, (lo + hi) \div 2, hi, flo,
                    Equation(c, s, mode_name, (lo + hi) \div 2))

\* How far from a zero of the equation scipy's fsolve may stop while
\* reporting convergence (micro-radians).
FsolveOffsets == {0, 250, 5000}

\* What fsolve may hand back where the equation has the zero `zero`
FsolveNear(zero) ==
    {<<zero + d, 1>> : d \in FsolveOffsets} \cup {<<zero, 5>>, <<-zero, 1>>}

\* fsolve on an equation with the values f0 at 0 and f1 at pi/2
FsolveBetween(c, s, mode_name, f0, f1) ==
    IF (f0 < 0 /\ f1 > 0) \/ (f0 > 0 /\ f1 < 0)
    THEN FsolveNear(Bisect(c, s, mode_name, 0, PiHalf, f0))
    ELSE {<<Pi \div 4, 5>>, <<0, 1>>, <<PiHalf + 1000, 1>>}

\* scipy.optimize.fsolve(equation_func, pi/4, full_output=1): the pairs
\* <<root, ier>> the library may hand back.  Where the equation changes sign
\* on [0, pi/2] it may converge (ier = 1) at the zero, near it, or at the
\* zero's mirror image below 0, or give up (ier = 5); where it does not, it
\* may give up, stall at the flat end of the curve, or leave the interval.
fsolve(c, s, mode_name) ==
    FsolveBetween(c, s, mode_name, Equation(c, s, mode_name, 0),
                  Equation(c, s, mode_name, PiHalf))

\* A faulty robust_solve: the residual of the root is not looked at
RobustSolveNoResidual(c, s, mode_name, solution) ==
    IF solution[2] = 1 /\ 0 <= solution[1] /\ solution[1] <= PiHalf
    THEN Num(solution[1])
    ELSE NaN

\* A faulty robust_solve: the convergence flag is not looked at
RobustSolveAnyIer(c, s, mode_name, solution) ==
    IF 0 <= solution[1] /\ solution[1] <= PiHalf
       /\ Abs(Equation(c, s, mode_name, solution[1])) < ResidualLimit
    THEN Num(solution[1])
    ELSE NaN

\* robust_solve(equation_func), given what fsolve handed back: the accepted
\* angle in radians, or nan
robust_solve(c, s, mode_name, solution) ==
    IF solution[2] = 1 /\ 0 <= solution[1] /\ solution[1] <= PiHalf
       /\ Abs(Equation(c, s, mode_name, solution[1])) < ResidualLimit
    THEN Num(solution[1])
    ELSE NaN

\* np.rad2deg(theta_val), nan staying nan
Degrees(theta_val) ==
    IF theta_val.tag = "nan" THEN NaN ELSE Num(Rad2Deg(theta_val.v))

\* One pass of criticalangle's loop: the mode, what fsolve handed back
\* for it, and the angle in degrees (or nan) stored under the mode.
SolveMode(c, s, mode_name) ==
    {[mode     |-> mode_name,
      solution |-> solution,
      theta    |-> Degrees(robust_solve(c, s, mode_name, solution))] :
        solution \in fsolve(c, s, mode_name)}

\* Solver.criticalangle() over the first n keys of equations_deltan: every
\* run of the loop, one for each way fsolve may answer.
RECURSIVE criticalangle(_, _, _)
criticalangle(c, s, n) ==
    IF n = 0 THEN {<<>>}
    ELSE {Append(run, pass) :
            run \in criticalangle(c, s, n - 1),
            pass \in SolveMode(c, s, EquationModes(s)[n])}

\* theta_critical_dict_results of a run, as the sequence of the dict's items
ThetaDict(run) == [i \in 1..Len(run) |-> [mode |-> run[i].mode, theta |-> run[i].theta]]

\* dict lookups
Keys(dict) == {dict[i].mode : i \in 1..Len(dict)}

Lookup(dict, mode_name) ==
    (CHOOSE i \in 1..Len(dict) : dict[i].mode = mode_name)

\* calc_walkoff, lines 411-414: <<rho_deg, rho_mrad>> of the walk-off rho_rad
WalkoffPair(rho_rad) == <<Rad2Deg(rho_rad), rho_rad * 1000>>

\* calc_walkoff, lines 408-409: theta - arctan(ratio * tan(theta)), the
\* tangent kept as sin / cos
WalkoffRho(theta_rad, ratio) ==
    WalkoffPair(theta_rad - Arctan(FMul(ratio, Sin(theta_rad)), Cos(theta_rad)))

\* calc_walkoff, lines 395-406: the index ratio of the plane
WalkoffRatio(c, indices) ==
    IF c.plane = "XY" THEN FDiv(FMul(indices.n_x, indices.n_x), FMul(indices.n_y, indices.n_y))
    ELSE IF c.plane = "XZ"
    THEN FDiv(FMul(indices.n_z, indices.n_z), FMul(indices.n_x, indices.n_x))
    ELSE FDiv(FMul(indices.n_z, indices.n_z), FMul(indices.n_y, indices.n_y))

\* calc_walkoff(pol, wavelength_nm) at the angle theta_rad: <<rho_deg, rho_mrad>>
calc_walkoff(c, theta_rad, pol, wavelength_nm) ==
    IF pol = "O" THEN <<0, 0>>
    ELSE WalkoffRho(theta_rad, WalkoffRatio(c, GetIndices(c, Num(wavelength_nm), None)))

\* format_walkoff(pol, deg, mrad): the text of one beam, as the polarization
\* and the two numbers it prints
format_walkoff(pol, walkoff) ==
    IF pol = "O" THEN [pol |-> pol, deg |-> 0, mrad |-> 0]
    ELSE [pol |-> pol, deg |-> Format4f(walkoff[1]), mrad |-> Format4f(walkoff[2])]

\* walkoff_angle, lines 416-431: the three beams of a mode, each with the
\* wavelength the loop passes for its position
WalkoffBeams(c, mode_name, theta_rad, pol1, pol2, pol_out) ==
    [mode |-> mode_name, kind |-> "text",
     beams |-> << format_walkoff(pol1, calc_walkoff(c, theta_rad, pol1, c.wavelength1_nm)),
                  format_walkoff(pol2, calc_walkoff(c, theta_rad, pol2,
                      IF c.process_type = "SFG" THEN c.wavelength2_nm
                      ELSE c.wavelength1_nm)),
                  format_walkoff(pol_out, calc_walkoff(c, theta_rad, pol_out,
                      c.wavelength_out_nm)) >>]

\* A faulty parse: the two input letters taken in the reverse of the order
\* they are written in
WalkoffParsedReversed(c, mode_name, theta_deg, parts, input_pols) ==
    IF theta_deg.tag = "nan" THEN [mode |-> mode_name, kind |-> "nan", beams |-> <<>>]
    ELSE IF Len(parts) # 2
    THEN [mode |-> mode_name, kind |-> "format error", beams |-> <<>>]
    ELSE IF input_pols = <<>>
    THEN [mode |-> mode_name, kind |-> "IndexError", beams |-> <<>>]
    ELSE WalkoffBeams(c, mode_name, Deg2Rad(theta_deg.v), input_pols[Len(input_pols)],
                      input_pols[1], OutputPol(parts[2]))

\* walkoff_angle, lines 376-390: the mode name parsed
WalkoffParsed(c, mode_name, theta_deg, parts, input_pols) ==
    IF theta_deg.tag = "nan" THEN [mode |-> mode_name, kind |-> "nan", beams |-> <<>>]
    ELSE IF Len(parts) # 2
    THEN [mode |-> mode_name, kind |-> "format error", beams |-> <<>>]
    ELSE IF input_pols = <<>>
    THEN [mode |-> mode_name, kind |-> "IndexError", beams |-> <<>>]
    ELSE WalkoffBeams(c, mode_name, Deg2Rad(theta_deg.v), input_pols[1],
                      IF Len(input_pols) > 1 THEN input_pols[2] ELSE input_pols[1],
                      OutputPol(parts[2]))

\* The body of walkoff_angle's loop for one item of theta_critical_dict
WalkoffOf(c, mode_name, theta_deg) ==
    WalkoffParsed(c, mode_name, theta_deg, Split(mode_name, "->"),
                  InputPols(Split(mode_name, "->")[1]))

\* What walkoff_angle hands back for the items its loop produced
WalkoffResult(items) ==
    IF \E i \in 1..Len(items) : items[i].kind = "IndexError"
    THEN [err |-> "IndexError", result |-> <<>>]
    ELSE [err |-> "", result |-> items]

\* Solver.walkoff_angle(theta_critical_dict, phi): the dict of walk-off
\* texts, or the exception an item without O or E raises
walkoff_angle(c, theta_critical_dict) ==
    WalkoffResult([i \in 1..Len(theta_critical_dict) |->
        WalkoffOf(c, theta_critical_dict[i].mode, theta_critical_dict[i].theta)])

\* half_max = 0.5
half_max == 500000

\* A faulty axis: the spacing argument ignored, the default res = 0.1 used
ScanAxisDefaultRes(nominal, step, res) ==
    [i \in 1..(2 * step) |->
        IF nominal.tag = "nan" THEN NaN ELSE Num(nominal.v + (i - 1 - step) * 100)]

\* nominal + np.arange(-step, step) * res: the scan axis of an acceptance
\* scan, res in the unit of the axis (micro-radians, picometres, 0.01 deg C)
ScanAxis(nominal, step, res) ==
    [i \in 1..(2 * step) |->
        IF nominal.tag = "nan" THEN NaN ELSE Num(nominal.v + (i - 1 - step) * res)]

\* A faulty efficiency: an undefined mismatch counted as none
EfficiencyNanAsZero(c, dn) ==
    IF dn.tag = "nan" THEN Num(Scale)
    ELSE IF Abs(dn.v) >= c.wavelength_out_nm \div 20 THEN Num(0)
    ELSE Num(SincSquared(MulDiv(dn.v * 10000, Scale, c.wavelength_out_nm)))

\* (np.sinc(delta_k * 1e4 / (2 pi)))**2 with delta_k = 2 pi / wavelength_out_um
\* * delta_n: the argument of the sinc is delta_n * 1e4 / wavelength_out_um,
\* and beyond 500 the efficiency is below one unit.
Efficiency(c, dn) ==
    IF dn.tag = "nan" THEN NaN
    ELSE IF Abs(dn.v) >= c.wavelength_out_nm \div 20 THEN Num(0)
    ELSE Num(SincSquared(MulDiv(dn.v * 10000, Scale, c.wavelength_out_nm)))

\* np.where(efficiency >= half_max)[0]
IndicesAboveHalf(efficiency) ==
    {i \in 1..Len(efficiency) : efficiency[i].tag = "num" /\ efficiency[i].v >= half_max}

\* A faulty width: the distance counted in samples, not along the axis
WidthInSamples(axis, indices_above_half) ==
    IF indices_above_half = {} THEN NaN
    ELSE Num((CHOOSE i \in indices_above_half : \A j \in indices_above_half : i >= j)
             - (CHOOSE i \in indices_above_half : \A j \in indices_above_half : i <= j))

\* axis[upper_index] - axis[lower_index], nan when no sample is at or above
\* half maximum
WidthOver(axis, indices_above_half) ==
    IF indices_above_half = {} THEN NaN
    ELSE Num(axis[CHOOSE i \in indices_above_half : \A j \in indices_above_half : i >= j].v
             - axis[CHOOSE i \in indices_above_half : \A j \in indices_above_half : i <= j].v)

\* The full width at half maximum of an efficiency curve over its axis
FullWidth(axis, efficiency) == WidthOver(axis, IndicesAboveHalf(efficiency))

\* What an acceptance scan has computed when it returns: the mismatch at
\* each sample, the curve it plots (x, y), the width and the second figure
\* derived from it; or the exception raised.
ScanResult(delta_n_array, x, efficiency, width, derived) ==
    IF \E i \in 1..Len(delta_n_array) : delta_n_array[i].err # ""
    THEN [err |-> delta_n_array[CHOOSE i \in 1..Len(delta_n_array) :
                                    delta_n_array[i].err # ""].err,
          delta_n_array |-> <<>>, x |-> <<>>, y |-> <<>>, width |-> NaN, derived |-> NaN]
    ELSE [err |-> "",
          delta_n_array |-> [i \in 1..Len(delta_n_array) |-> delta_n_array[i].value],
          x |-> x, y |-> efficiency, width |-> width, derived |-> derived]

KeyError ==
    [err |-> "KeyError", delta_n_array |-> <<>>, x |-> <<>>, y |-> <<>>,
     width |-> NaN, derived |-> NaN]

Radians(theta_deg) == IF theta_deg.tag = "nan" THEN NaN ELSE Num(Deg2Rad(theta_deg.v))

\* The efficiency curve of a scan: sinc^2 of each sample's mismatch
EfficiencyCurve(c, delta_n_array) ==
    [i \in 1..Len(delta_n_array) |-> Efficiency(c, delta_n_array[i].value)]

\* The half-maximum search of a scan: the width along the axis
ScanWidth(delta_n_array, axis, efficiency) ==
    ScanResult(delta_n_array, axis, efficiency, FullWidth(axis, efficiency), NaN)

\* The efficiency and width of a scan, given the mismatch at each sample
ScanCurve(c, axis, delta_n_array) ==
    ScanWidth(delta_n_array, axis, EfficiencyCurve(c, delta_n_array))

\* acceptance_angle, lines 597-613: the width in mrad and in degrees
AngleWidths(scan) ==
    [scan EXCEPT !.width = IF @.tag = "nan" THEN NaN ELSE Num(@.v * 1000),
                 !.derived = IF scan.width.tag = "nan" THEN NaN
                             ELSE Num(Rad2Deg(scan.width.v))]

\* acceptance_angle, lines 565-576: the mismatch at each angle of the axis
AngleScan(c, s, target_mode, theta_axis) ==
    AngleWidths(ScanCurve(c, theta_axis,
        [i \in 1..Len(theta_axis) |->
            delta_n(c, s, target_mode, theta_axis[i], None, None, None, None)]))

\* Solver.acceptance_angle(theta_critical_dict, target_mode, step, res)
acceptance_angle(c, s, theta_critical_dict, target_mode, step, res) ==
    IF target_mode \notin Keys(theta_critical_dict) THEN KeyError
    ELSE AngleScan(c, s, target_mode,
            ScanAxis(Radians(theta_critical_dict[Lookup(theta_critical_dict, target_mode)].theta),
                     step, res))

\* acceptance_wavelength, line 682: 299792458 / wavelength1_nm**2 * width
WavelengthWidths(c, scan) ==
    [scan EXCEPT !.derived = IF scan.width.tag = "nan" THEN NaN
                             ELSE Num(MulDiv(MulDiv(299792458, scan.width.v, c.wavelength1_nm),
                                             1000, c.wavelength1_nm))]

\* acceptance_wavelength, lines 625-630: the second input and the output
\* wavelength that go with the first
Wavelength2Of(c, wl) ==
    IF c.process_type = "SHG" THEN wl
    ELSE FMul(FDiv(c.wavelength2_nm, c.wavelength1_nm), wl)

WavelengthOutOf(c, wl, wl2) ==
    IF c.process_type = "SHG" THEN wl \div 2 ELSE Harmonic(wl, wl2)

\* acceptance_wavelength, lines 632-647: one sample of the scan
WavelengthSample(c, s, target_mode, tem_theta, wl, wl2) ==
    delta_n(c, s, target_mode, tem_theta, Num(wl), Num(wl2),
            Num(WavelengthOutOf(c, wl, wl2)), None)

WavelengthScan(c, s, target_mode, tem_theta, wavelength1_axis) ==
    WavelengthWidths(c, ScanCurve(c, wavelength1_axis,
        [i \in 1..Len(wavelength1_axis) |->
            WavelengthSample(c, s, target_mode, tem_theta, wavelength1_axis[i].v,
                             Wavelength2Of(c, wavelength1_axis[i].v))]))

\* Solver.acceptance_wavelength(theta_critical_dict, target_mode, step, res)
acceptance_wavelength(c, s, theta_critical_dict, target_mode, step, res) ==
    IF target_mode \notin Keys(theta_critical_dict) THEN KeyError
    ELSE WavelengthScan(c, s, target_mode,
            Radians(theta_critical_dict[Lookup(theta_critical_dict, target_mode)].theta),
            ScanAxis(Num(c.wavelength1_nm), step, res))

TemperatureScan(c, s, target_mode, tem_theta, temperature_axis) ==
    ScanCurve(c, temperature_axis,
        [i \in 1..Len(temperature_axis) |->
            delta_n(c, s, target_mode, tem_theta, None, None, None, temperature_axis[i])])

\* Solver.acceptance_temperature(theta_critical_dict, target_mode, step, res)
acceptance_temperature(c, s, theta_critical_dict, target_mode, step, res) ==
    IF target_mode \notin Keys(theta_critical_dict) THEN KeyError
    ELSE TemperatureScan(c, s, target_mode,
            Radians(theta_critical_dict[Lookup(theta_critical_dict, target_mode)].theta),
            ScanAxis(Num(c.temperature), step, res))

\* The part of temperature_phase_matching that follows the sampling: the
\* crossings of zero found between neighbouring samples, and the summary.
RECURSIVE MatchingTemperatures(_, _, _)
MatchingTemperatures(temperature_axis, phase_mismatch, i) ==
    IF i >= Len(phase_mismatch) THEN <<>>
    ELSE LET a == phase_mismatch[i]
             b == phase_mismatch[i + 1]
             t_exact == temperature_axis[i]
                        - MulDiv(a, temperature_axis[i + 1] - temperature_axis[i], b - a)
         IN  (IF ((a <= 0 /\ b >= 0) \/ (a >= 0 /\ b <= 0)) /\ b # a
              THEN <<t_exact>> ELSE <<>>)
             \o MatchingTemperatures(temperature_axis, phase_mismatch, i + 1)

\* np.argmin(np.abs(phase_mismatch)): the first index of the least magnitude
ArgMinAbs(phase_mismatch) ==
    CHOOSE i \in 1..Len(phase_mismatch) :
        /\ \A j \in 1..Len(phase_mismatch) : Abs(phase_mismatch[i]) <= Abs(phase_mismatch[j])
        /\ \A j \in 1..(i - 1) : Abs(phase_mismatch[j]) > Abs(phase_mismatch[i])

ScanTemperatures(temperature_axis, phase_mismatch, fixed_axis) ==
    [err |-> "",
     matching_temperatures |-> MatchingTemperatures(temperature_axis, phase_mismatch, 1),
     temperature_axis |-> temperature_axis,
     phase_mismatch |-> phase_mismatch,
     fixed_axis |-> fixed_axis,
     min_phase_mismatch |-> CHOOSE a \in Range(phase_mismatch) :
                                \A b \in Range(phase_mismatch) : a <= b,
     max_phase_mismatch |-> CHOOSE a \in Range(phase_mismatch) :
                                \A b \in Range(phase_mismatch) : a >= b,
     closest_temp |-> temperature_axis[ArgMinAbs(phase_mismatch)],
     closest_pm |-> phase_mismatch[ArgMinAbs(phase_mismatch)]]

\* np.arange(temp_min, temp_max + temp_step, temp_step)
TemperatureAxis(temp_min, temp_max, temp_step) ==
    [i \in 1..((temp_max - temp_min + 2 * temp_step - 1) \div temp_step) |->
        temp_min + (i - 1) * temp_step]

\* Solver.temperature_phase_matching(target_mode, temperature_range,
\* temp_step, fixed_axis): the result dict, or the exception delta_n raises
TemperatureSamples(temperature_axis, samples, fixed_axis) ==
    IF \E i \in 1..Len(samples) : samples[i].err # ""
    THEN [err |-> samples[CHOOSE i \in 1..Len(samples) : samples[i].err # ""].err]
    ELSE ScanTemperatures(temperature_axis,
                          [i \in 1..Len(samples) |-> samples[i].value.v], fixed_axis)

TemperatureSweep(c, s, target_mode, temperature_axis, fixed_axis) ==
    TemperatureSamples(temperature_axis,
        [i \in 1..Len(temperature_axis) |->
            delta_n(c, s, target_mode, None, None, None, None, Num(temperature_axis[i]))],
        fixed_axis)

temperature_phase_matching(c, s, target_mode, temp_min, temp_max, temp_step, fixed_axis) ==
    TemperatureSweep(c, s, target_mode, TemperatureAxis(temp_min, temp_max, temp_step),
                     fixed_axis)

---------------------------------------------------------------------------
(* Solver.d_eff *)

\* Floating-point arithmetic on values that may be nan
TSin(x) == IF x.tag = "nan" THEN NaN ELSE Num(Sin(x.v))

TCos(x) == IF x.tag = "nan" THEN NaN ELSE Num(Cos(x.v))

TTimes(k, x) == IF x.tag = "nan" THEN NaN ELSE Num(k * x.v)

TMul(x, y) == IF x.tag = "nan" \/ y.tag = "nan" THEN NaN ELSE Num(FMul(x.v, y.v))

TAdd(x, y) == IF x.tag = "nan" \/ y.tag = "nan" THEN NaN ELSE Num(x.v + y.v)

TSub(x, y) == IF x.tag = "nan" \/ y.tag = "nan" THEN NaN ELSE Num(x.v - y.v)

\* abs(d_value)
TAbs(x) == IF x.tag = "nan" THEN NaN ELSE Num(Abs(x.v))

\* np.deg2rad of a value that may be nan
TDeg2Rad(x) == IF x.tag = "nan" THEN NaN ELSE Num(Deg2Rad(x.v))

\* d_tensor.get(key, 0)
TensorGet(d_tensor, key) == Num(IF key \in DOMAIN d_tensor THEN d_tensor[key] ELSE 0)

\* [c for c in text if c in ['O', 'E']]: the polarization letters, in order
RECURSIVE PolsOf(_)
PolsOf(text) ==
    IF text = <<>> THEN <<>>
    ELSE (IF Head(text)[1] \in {"O", "E"} THEN <<Head(text)[1]>> ELSE <<>>)
         \o PolsOf(Tail(text))

\* A faulty classification: the two input letters kept in the order written
GetModeTypeOrdered(mode_name) ==
    IF ~Contains(mode_name, "->") THEN ""
    ELSE LET parts == Split(mode_name, "->")
             input_pols == PolsOf(parts[1])
             output_pols == PolsOf(parts[2])
         IN  IF Len(input_pols) < 2 \/ output_pols = <<>> THEN ""
             ELSE input_pols[1] \o input_pols[2] \o output_pols[1]

\* get_mode_type(mode_name): "OOE", "EEO", "OEE", "OEO", ..., or "" (None)
get_mode_type(mode_name) ==
    IF ~Contains(mode_name, "->") THEN ""
    ELSE LET parts == Split(mode_name, "->")
             input_pols == PolsOf(parts[1])
             output_pols == PolsOf(parts[2])
         IN  IF Len(input_pols) < 2 \/ output_pols = <<>> THEN ""
             ELSE IF input_pols[1] = input_pols[2]
             THEN input_pols[1] \o input_pols[2] \o output_pols[1]
             ELSE "OE" \o output_pols[1]

\* d_eff, step 3, group 4bar2m
DValue4bar2m(d_tensor, mode_type, theta_rad, phi_rad) ==
    IF mode_type \in {"OOE", "OEO"}
    THEN TMul(TMul(TensorGet(d_tensor, "d36"), TSin(theta_rad)), TSin(TTimes(2, phi_rad)))
    ELSE IF mode_type \in {"EEO", "OEE"}
    THEN TMul(TMul(TensorGet(d_tensor, "d36"), TSin(TTimes(2, theta_rad))),
              TCos(TTimes(2, phi_rad)))
    ELSE Num(0)

\* d_eff, step 3, group 3m
DValue3m(d_tensor, mode_type, theta_rad, phi_rad) ==
    LET d31 == TensorGet(d_tensor, "d31")
        d11 == TensorGet(d_tensor, "d11")
        d22 == TensorGet(d_tensor, "d22")
        d15 == TensorGet(d_tensor, "d15")
        c3  == TCos(TTimes(3, phi_rad))
        s3  == TSin(TTimes(3, phi_rad))
    IN  IF mode_type = "OOE"
        THEN TAdd(TMul(d31, TSin(theta_rad)),
                  TMul(TSub(TMul(d11, c3), TMul(d22, s3)), TCos(theta_rad)))
        ELSE IF mode_type = "EEO"
        THEN TAdd(TMul(d31, TSin(theta_rad)),
                  TMul(TSub(TMul(d22, s3), TMul(d11, c3)), TCos(theta_rad)))
        ELSE IF mode_type = "OEE"
        THEN TMul(TAdd(TMul(d11, s3), TMul(d22, c3)),
                  TMul(TCos(theta_rad), TCos(theta_rad)))
        ELSE IF mode_type = "OEO"
        THEN TAdd(TMul(d15, TSin(theta_rad)),
                  TMul(TSub(TMul(d11, c3), TMul(d22, s3)), TCos(theta_rad)))
        ELSE Num(0)

\* d_eff, step 3, group mm2
DValueMm2(d_tensor, plane, mode_type, theta_rad, phi_rad) ==
    IF plane = "XY"
    THEN IF mode_type = "OOE"
         THEN TAdd(TMul(TensorGet(d_tensor, "d31"), TMul(TCos(phi_rad), TCos(phi_rad))),
                   TMul(TensorGet(d_tensor, "d32"), TMul(TSin(phi_rad), TSin(phi_rad))))
         ELSE IF mode_type = "EEO" THEN TensorGet(d_tensor, "d33")
         ELSE Num(0)
    ELSE IF plane = "YZ"
    THEN IF mode_type = "OOE" THEN TMul(TensorGet(d_tensor, "d31"), TCos(theta_rad))
         ELSE IF mode_type \in {"OEE", "OEO"}
         THEN TMul(TensorGet(d_tensor, "d31"), TSin(theta_rad))
         ELSE Num(0)
    ELSE IF plane = "XZ"
    THEN IF mode_type = "OOE" THEN TMul(TensorGet(d_tensor, "d32"), TCos(theta_rad))
         ELSE IF mode_type \in {"OEE", "OEO"}
         THEN TMul(TensorGet(d_tensor, "d32"), TSin(theta_rad))
         ELSE Num(0)
    ELSE Num(0)

\* A faulty d_value: the last branch taken for every other point group
DValueElseMm2(crystal_info, plane, mode_type, theta_rad, phi_rad) ==
    IF crystal_info.group = "4bar2m"
    THEN DValue4bar2m(crystal_info.d, mode_type, theta_rad, phi_rad)
    ELSE IF crystal_info.group = "3m"
    THEN DValue3m(crystal_info.d, mode_type, theta_rad, phi_rad)
    ELSE DValueMm2(crystal_info.d, plane, mode_type, theta_rad, phi_rad)

\* d_eff, step 3: d_value of the point group and the mode type
DValue(crystal_info, plane, mode_type, theta_rad, phi_rad) ==
    IF crystal_info.group = "4bar2m"
    THEN DValue4bar2m(crystal_info.d, mode_type, theta_rad, phi_rad)
    ELSE IF crystal_info.group = "3m"
    THEN DValue3m(crystal_info.d, mode_type, theta_rad, phi_rad)
    ELSE IF crystal_info.group = "mm2"
    THEN DValueMm2(crystal_info.d, plane, mode_type, theta_rad, phi_rad)
    ELSE Num(0)

\* 90 degrees, in micro-degrees
Deg90 == 90000000

\* d_eff, step 2: theta and phi of the plane, then abs(d_value)
DEffOfType(crystal_info, plane, mode_type, critical_angle_deg, selected_phi) ==
    IF mode_type = "" THEN Num(0)
    ELSE IF plane = "XY"
    THEN TAbs(DValue(crystal_info, plane, mode_type,
                     Num(Deg2Rad(Deg90)), TDeg2Rad(critical_angle_deg)))
    ELSE IF plane = "XZ"
    THEN TAbs(DValue(crystal_info, plane, mode_type, TDeg2Rad(critical_angle_deg),
                     IF selected_phi.tag # "none" THEN TDeg2Rad(selected_phi)
                     ELSE Num(0)))
    ELSE IF plane = "YZ"
    THEN TAbs(DValue(crystal_info, plane, mode_type, TDeg2Rad(critical_angle_deg),
                     IF selected_phi.tag # "none" THEN TDeg2Rad(selected_phi)
                     ELSE Num(Deg2Rad(Deg90))))
    ELSE Num(0)

\* Solver.d_eff(theta_critical_dict, selected_phi): the dict of
\* coefficients, with the matching type of each mode, or the exception
d_eff(c, s, theta_critical_dict, selected_phi) ==
    IF c.crystal_name \notin DOMAIN s.crystal_db
    THEN [err |-> "KeyError", result |-> <<>>]
    ELSE [err |-> "",
          result |-> [i \in 1..Len(theta_critical_dict) |->
              [mode |-> theta_critical_dict[i].mode,
               mode_type |-> get_mode_type(theta_critical_dict[i].mode),
               d_eff |-> DEffOfType(s.crystal_db[c.crystal_name], c.plane,
                                    get_mode_type(theta_critical_dict[i].mode),
                                    theta_critical_dict[i].theta, selected_phi)]]]

---------------------------------------------------------------------------
(* src/launcher.py *)

\* all_modes_for_axis of the run button: the axis-locked modes of a
\* propagation axis
all_modes_for_axis(c, fixed_axis) ==
    LET p == IF fixed_axis = "X" THEN "Y" ELSE "X"
        q == IF fixed_axis = "Z" THEN "Y" ELSE "Z"
        l1 == Format0f(c.wavelength1_nm)
        l2 == Format0f(c.wavelength2_nm)
    IN  IF c.process_type = "SHG"
        THEN LET lo == Format0f(c.wavelength1_nm \div 2)
             IN  << ModeName(p, l1, p, l1, q, lo, 1),
                    ModeName(q, l1, q, l1, p, lo, 1),
                    ModeName(p, l1, q, l1, q, lo, 2),
                    ModeName(p, l1, q, l1, p, lo, 2) >>
        ELSE LET lo == Format0f(Harmonic(c.wavelength1_nm, c.wavelength2_nm))
             IN  << ModeName(p, l1, p, l2, q, lo, 1),
                    ModeName(q, l1, q, l2, p, lo, 1),
                    ModeName(p, l1, q, l2, q, lo, 2),
                    ModeName(q, l1, p, l2, q, lo, 2),
                    ModeName(p, l1, q, l2, p, lo, 2),
                    ModeName(q, l1, p, l2, p, lo, 2) >>

---------------------------------------------------------------------------
(* The solver as a state machine.  A call is one step: it leaves its       *)
(* arguments and what it returned in out, and Return hands control back.   *)

\* The largest scan half-length (step) the model calls an acceptance scan with
MaxStep == 2

\* The inputs of the launcher's side bar the model constructs a
\* configuration from
Configs ==
    { SimulationConfig("BBO", 1064000, 2000, "XZ", "SHG", None, "default"),
      SimulationConfig("BBO", 1064000, 2000, "XZ", "SFG", Num(532000), "default"),
      SimulationConfig("BBO", 1064400, 2000, "XZ", "SFG", Num(1065000), "default"),
      SimulationConfig("BBO", 1064000, 2000, "XZ", "SFG", Num(1064300), "default"),
      SimulationConfig("LBO", 1064000, 2000, "XY", "SHG", None, "default"),
      SimulationConfig("KTP", 1064000, 2000, "YZ", "SHG", None, "default") }

\* Scan resolutions: micro-radians, picometres, 0.01 deg C.  The widest
\* angular spacing carries a scan of a few samples as far from the critical
\* angle as a scan of some hundred samples a milliradian apart.
AngleRes == {50, 250, 202700}

WavelengthRes == {100, 1000}

TemperatureRes == {100, 1000}

\* Temperature scans: <<temp_min, temp_max, temp_step>>
TemperatureRanges == {<<2000, 2200, 100>>, <<14000, 16000, 1000>>, <<14000, 14500, 1000>>}

\* The modes a caller may name: the solver's own and the launcher's
CallableModes(c, s) ==
    Range(s.mode_names) \cup UNION {Range(all_modes_for_axis(c, a)) : a \in {"X", "Y", "Z"}}

\* Identifiers a caller may get wrong: one without the arrow, two without
\* the + between the input beams, one without a polarization label
MalformedModes(c) ==
    LET w  == Format0f(c.wavelength1_nm)
        lo == Format0f(c.wavelength_out_nm)
    IN  { << <<"O", 0>>, <<"nm", w>>, <<"+", 0>>, <<"E", 0>>, <<"nm", w>>,
             <<"E", 0>>, <<"nm", lo>>, <<"Type", 2>> >>,
          << <<"O", 0>>, <<"nm", w>>, <<"E", 0>>, <<"nm", w>>, <<"->", 0>>,
             <<"E", 0>>, <<"nm", lo>>, <<"Type", 2>> >>,
          << <<"X", 0>>, <<"nm", w>>, <<"X", 0>>, <<"nm", w>>, <<"->", 0>>,
             <<"Y", 0>>, <<"nm", lo>>, <<"Type", 1>> >>,
          << <<"nm", w>>, <<"+", 0>>, <<"nm", w>>, <<"->", 0>>, <<"nm", lo>>,
             <<"Type", 1>> >> }

NoOutput == [op |-> "none"]

Init ==
    /\ cfg \in Configs
    /\ solver = SolverInit(cfg)
    /\ theta_dict = <<>>
    /\ pc = "idle"
    /\ out = NoOutput
    /\ probe = NoOutput

\* solver.delta_n(mode_name, theta, wavelength1, wavelength_out=...)
CallDeltaN ==
    /\ pc = "idle"
    /\ \E mode_name \in CallableModes(cfg, solver) \cup MalformedModes(cfg),
          theta \in {None, NaN, Num(Pi \div 4)},
          wavelength1 \in {None, Num(1000000)},
          wavelength_out \in {None, Num(400000)} :
            out' = [op |-> "delta_n", mode |-> mode_name, theta |-> theta,
                    wavelength1 |-> wavelength1, wavelength2 |-> None,
                    wavelength_out |-> wavelength_out, temperature |-> None,
                    result |-> delta_n(cfg, solver, mode_name, theta, wavelength1,
                                       None, wavelength_out, None)]
    /\ pc' = "returned"
    /\ UNCHANGED <<cfg, solver, theta_dict, probe>>

\* st.session_state.theta_dict = simulation.criticalangle()
CriticalAngle ==
    /\ pc = "idle"
    /\ \E run \in criticalangle(cfg, solver, Len(EquationModes(solver))) :
        /\ theta_dict' = ThetaDict(run)
        /\ out' = [op |-> "criticalangle",
                   fsolve |-> [i \in 1..Len(run) |-> run[i].solution],
                   result |-> ThetaDict(run)]
    /\ pc' = "returned"
    /\ UNCHANGED <<cfg, solver, probe>>

\* simulation.walkoff_angle(st.session_state.theta_dict, phi)
WalkoffAngle ==
    /\ pc = "idle"
    /\ theta_dict # <<>>
    /\ out' = [op |-> "walkoff_angle", result |-> walkoff_angle(cfg, theta_dict)]
    /\ pc' = "returned"
    /\ UNCHANGED <<cfg, solver, theta_dict, probe>>

AcceptanceAngle ==
    /\ pc = "idle"
    /\ \E target_mode \in Keys(theta_dict), step \in 1..MaxStep, res \in AngleRes :
        out' = [op |-> "acceptance_angle", target_mode |-> target_mode,
                step |-> step, res |-> res,
                result |-> acceptance_angle(cfg, solver, theta_dict, target_mode, step, res)]
    /\ pc' = "returned"
    /\ UNCHANGED <<cfg, solver, theta_dict, probe>>

AcceptanceWavelength ==
    /\ pc = "idle"
    /\ \E target_mode \in Keys(theta_dict), step \in 1..MaxStep, res \in WavelengthRes :
        out' = [op |-> "acceptance_wavelength", target_mode |-> target_mode,
                step |-> step, res |-> res,
                result |-> acceptance_wavelength(cfg, solver, theta_dict, target_mode, step, res)]
    /\ pc' = "returned"
    /\ UNCHANGED <<cfg, solver, theta_dict, probe>>

\* A faulty scan: the configuration's temperature left at the last sample
AcceptanceTemperatureOverwrites ==
    /\ pc = "idle"
    /\ \E target_mode \in Keys(theta_dict), step \in 1..MaxStep, res \in TemperatureRes :
        /\ out' = [op |-> "acceptance_temperature", target_mode |-> target_mode,
                   step |-> step, res |-> res,
                   result |-> acceptance_temperature(cfg, solver, theta_dict, target_mode,
                                                     step, res)]
        /\ cfg' = [cfg EXCEPT !.temperature = @ + (step - 1) * res]
    /\ pc' = "returned"
    /\ UNCHANGED <<solver, theta_dict, probe>>

AcceptanceTemperature ==
    /\ pc = "idle"
    /\ \E target_mode \in Keys(theta_dict), step \in 1..MaxStep, res \in TemperatureRes :
        out' = [op |-> "acceptance_temperature", target_mode |-> target_mode,
                step |-> step, res |-> res,
                result |-> acceptance_temperature(cfg, solver, theta_dict, target_mode, step, res)]
    /\ pc' = "returned"
    /\ UNCHANGED <<cfg, solver, theta_dict, probe>>

\* simulation.temperature_phase_matching(mode, temperature_range, temp_step, fixed_axis)
TemperaturePhaseMatching ==
    /\ pc = "idle"
    /\ \E fixed_axis \in {"X", "Y", "Z"}, range \in TemperatureRanges :
        \E target_mode \in Range(all_modes_for_axis(cfg, fixed_axis)) :
            out' = [op |-> "temperature_phase_matching",
                    target_mode |-> target_mode,
                    range |-> range,
                    result |-> temperature_phase_matching(cfg, solver, target_mode,
                                  range[1], range[2], range[3], fixed_axis)]
    /\ pc' = "returned"
    /\ UNCHANGED <<cfg, solver, theta_dict, probe>>

\* st.session_state.d_eff_dict = simulation.d_eff(st.session_state.theta_dict, phi)
DEff ==
    /\ pc = "idle"
    /\ theta_dict # <<>>
    /\ \E phi \in {Num(0), Num(45000000)} :
        out' = [op |-> "d_eff", theta_critical_dict |-> theta_dict, selected_phi |-> phi,
                result |-> d_eff(cfg, solver, theta_dict, phi)]
    /\ pc' = "returned"
    /\ UNCHANGED <<cfg, solver, theta_dict, probe>>

Return ==
    /\ pc = "returned"
    /\ pc' = "idle"
    /\ out' = NoOutput
    /\ UNCHANGED <<cfg, solver, theta_dict, probe>>

Next ==
    \/ CallDeltaN
    \/ CriticalAngle
    \/ WalkoffAngle
    \/ DEff
    \/ AcceptanceAngle
    \/ AcceptanceWavelength
    \/ AcceptanceTemperature
    \/ TemperaturePhaseMatching
    \/ Return

Spec == Init /\ [][Next]_vars

---------------------------------------------------------------------------
(* The mixer on its own: ne_func applied to a pair of indices and an angle *)

MixerIndices == {1200000, 1500000, 1600000, 1654000, 2000000, 2400000}

MixerAngles == {0, 500000, Pi \div 4, 1000000, PiHalf}

InitMixer ==
    /\ cfg \in {c \in Configs : c.crystal_name = "LBO"}
    /\ solver = SolverInit(cfg)
    /\ theta_dict = <<>>
    /\ pc = "idle"
    /\ out = NoOutput
    /\ probe \in [n_cos : MixerIndices, n_sin : MixerIndices, theta : MixerAngles]

\* self.ne_func(n_cos, n_sin)(theta)
CallMixer ==
    /\ pc = "idle"
    /\ out' = [op |-> "ne_func", n_cos |-> probe.n_cos, n_sin |-> probe.n_sin,
               theta |-> probe.theta,
               result |-> ne_func(probe.n_cos, probe.n_sin, probe.theta)]
    /\ pc' = "returned"
    /\ UNCHANGED <<cfg, solver, theta_dict, probe>>

NextMixer ==
    \/ CallMixer
    \/ Return

SpecMixer == InitMixer /\ [][NextMixer]_vars

\* C3: for principal indices n_major, n_minor, both above 1, the function
\* ne_func(n_major, n_minor) returns, n_major being its first (cos^2)
\* argument, has the value n_major at 0 and n_minor at pi/2 (to within the
\* rounding of two units).
MixerEndpoints ==
    out.op = "ne_func" =>
        /\ out.theta = 0 => Abs(out.result - out.n_cos) <= 2
        /\ out.theta = PiHalf => Abs(out.result - out.n_sin) <= 2

---------------------------------------------------------------------------
(* The zero search of temperature_phase_matching on the samples of a       *)
(* linear function that is zero at one point of the temperature grid       *)

\* The largest number of samples of a synthetic scan
MaxSamples == 5

Slopes == {-30, -10, 10, 20}

InitScan ==
    /\ cfg \in {c \in Configs : c.crystal_name = "LBO"}
    /\ solver = SolverInit(cfg)
    /\ theta_dict = <<>>
    /\ pc = "idle"
    /\ out = NoOutput
    /\ \E n \in 2..MaxSamples, slope \in Slopes, temp_min \in {2000, 14000},
          temp_step \in {100, 1000} :
        \E zero \in 1..n :
            probe = [zero |-> zero,
                     temperature_axis |->
                        TemperatureAxis(temp_min, temp_min + (n - 1) * temp_step, temp_step),
                     phase_mismatch |-> [i \in 1..n |-> slope * (i - zero)]]

\* The search for zeros and the result dict, on the samples of the probe
CallScan ==
    /\ pc = "idle"
    /\ out' = [op |-> "scan",
               result |-> ScanTemperatures(probe.temperature_axis,
                                           probe.phase_mismatch, "X")]
    /\ pc' = "returned"
    /\ UNCHANGED <<cfg, solver, theta_dict, probe>>

NextScan ==
    \/ CallScan
    \/ Return

SpecScan == InitScan /\ [][NextScan]_vars

\* C7: when the samples are those of a linear function that is exactly zero
\* at one grid point, exactly one matching temperature is reported, and it
\* is that grid point.
OneMatchingTemperature ==
    out.op = "scan" =>
        out.result.matching_temperatures = <<probe.temperature_axis[probe.zero]>>

---------------------------------------------------------------------------
(* Properties of criticalangle *)

\* C1: every mode for which criticalangle returns a defined angle has that
\* angle within [0, 90] degrees, and the mismatch delta_n(mode, angle) at it
\* is below 1e-4 in magnitude.
ThetaCriticalValid ==
    out.op = "criticalangle" =>
        \A i \in 1..Len(out.result) :
            out.result[i].theta.tag = "num" =>
                /\ 0 <= out.result[i].theta.v
                /\ out.result[i].theta.v <= 90 * Scale
                /\ Abs(Equation(cfg, solver, out.result[i].mode,
                                Deg2Rad(out.result[i].theta.v))) < ResidualLimit

\* criticalangle has returned a defined angle at which the mismatch is small
\* but not zero
ThetaCriticalAccepted ==
    /\ out.op = "criticalangle"
    /\ \E i \in 1..Len(out.result) :
        /\ out.result[i].theta.tag = "num"
        /\ Equation(cfg, solver, out.result[i].mode,
                    Deg2Rad(out.result[i].theta.v)) # 0

\* fsolve's answer for the i-th mode fails one of robust_solve's three tests
Rejected(i) ==
    \/ out.fsolve[i][2] # 1
    \/ out.fsolve[i][1] < 0
    \/ out.fsolve[i][1] > PiHalf
    \/ Abs(Equation(cfg, solver, out.result[i].mode, out.fsolve[i][1])) >= ResidualLimit

\* C2: a mode whose root-finder run does not converge, or whose root is
\* outside [0, pi/2], or whose residual is not below 1e-4, is reported as
\* NaN, and the mapping returned holds exactly one entry for every
\* enumerated mode.
NoSolutionIsNaN ==
    out.op = "criticalangle" =>
        /\ \A m \in Range(solver.mode_names) :
            Cardinality({i \in 1..Len(out.result) : out.result[i].mode = m}) = 1
        /\ \A i \in 1..Len(out.result) : out.result[i].mode \in Range(solver.mode_names)
        /\ \A i \in 1..Len(out.result) : Rejected(i) => out.result[i].theta = NaN

\* criticalangle has returned with one mode not converged, one converged
\* outside [0, pi/2] and one converged with too large a residual
NoSolutionReported ==
    /\ out.op = "criticalangle"
    /\ \E i \in 1..Len(out.result) : out.fsolve[i][2] # 1
    /\ \E i \in 1..Len(out.result) :
        out.fsolve[i][2] = 1 /\ (out.fsolve[i][1] < 0 \/ out.fsolve[i][1] > PiHalf)
    /\ \E i \in 1..Len(out.result) :
        /\ out.fsolve[i][2] = 1 /\ 0 <= out.fsolve[i][1] /\ out.fsolve[i][1] <= PiHalf
        /\ Abs(Equation(cfg, solver, out.result[i].mode, out.fsolve[i][1])) >= ResidualLimit


---------------------------------------------------------------------------
(* Properties of delta_n and walkoff_angle *)

\* The wavelength in effect for a call: the override where one was supplied
InEffect(override, configured) ==
    IF override.tag # "none" THEN override.v ELSE configured

\* C4: under SFG, in every delta_n call and for both label alphabets, the
\* two weights applied to the input indices are lambda_out / lambda_1 and
\* lambda_out / lambda_2 of the wavelengths in effect for the call (the
\* overrides where supplied, not the values of construction time).
WeightsInEffect ==
    (out.op = "delta_n" /\ cfg.process_type = "SFG" /\ out.result.err = "") =>
        {out.result.w1, out.result.w2} =
            {FDiv(InEffect(out.wavelength_out, cfg.wavelength_out_nm),
                  InEffect(out.wavelength1, cfg.wavelength1_nm)),
             FDiv(InEffect(out.wavelength_out, cfg.wavelength_out_nm),
                  InEffect(out.wavelength2, cfg.wavelength2_nm))}

\* The configured wavelengths a label of a mode name stands for
LabelWavelengths(c, label) ==
    {w \in {c.wavelength1_nm, c.wavelength2_nm, c.wavelength_out_nm} :
        Format0f(w) = label}

\* C5: for every enumerated SFG O/E mode evaluated at the configured
\* wavelengths, the modes that list lambda_2 before lambda_1 included,
\* delta_n takes each input beam's indices and weight at the wavelength
\* named in that beam's label.
BeamsAtLabelledWavelengths ==
    (/\ out.op = "delta_n" /\ cfg.process_type = "SFG"
     /\ out.mode \in Range(solver.mode_names)
     /\ out.wavelength1 = None /\ out.wavelength2 = None /\ out.wavelength_out = None
     /\ out.result.err = "") =>
        /\ out.result.actual_wl1 \in LabelWavelengths(cfg, FindWavelengths(out.mode)[1])
        /\ out.result.actual_wl2 \in LabelWavelengths(cfg, FindWavelengths(out.mode)[2])
        /\ out.result.w1 = FDiv(cfg.wavelength_out_nm, out.result.actual_wl1)
        /\ out.result.w2 = FDiv(cfg.wavelength_out_nm, out.result.actual_wl2)

\* The i-th beam of a mode name: its polarization and its label
BeamPol(mode_name, i) ==
    IF i = 3 THEN OutputPol(Split(mode_name, "->")[2])
    ELSE IF Len(InputPols(Split(mode_name, "->")[1])) > 1
    THEN InputPols(Split(mode_name, "->")[1])[i]
    ELSE InputPols(Split(mode_name, "->")[1])[1]

\* C6: for every enumerated mode with a defined critical angle, the walk-off
\* of each extraordinary beam is computed from the indices at the
\* wavelength named in that beam's own label, the SFG modes that list
\* lambda_2 before lambda_1 included.
WalkoffAtLabelledWavelengths ==
    (out.op = "walkoff_angle" /\ out.result.err = "") =>
        \A i \in 1..Len(out.result.result) :
            out.result.result[i].kind = "text" =>
                \A k \in 1..3 :
                    BeamPol(theta_dict[i].mode, k) = "E" =>
                        \E w \in LabelWavelengths(cfg, FindWavelengths(theta_dict[i].mode)[k]) :
                            out.result.result[i].beams[k] =
                                format_walkoff("E", calc_walkoff(cfg,
                                    Deg2Rad(theta_dict[i].theta.v), "E", w))


---------------------------------------------------------------------------
(* Properties of the acceptance scans *)

AcceptanceScans == {"acceptance_angle", "acceptance_wavelength", "acceptance_temperature"}

\* An acceptance scan has returned its curve
Scanned == out.op \in AcceptanceScans /\ out.result.err = ""

\* The samples of the returned curve at or above half maximum
Qualifying ==
    {i \in 1..Len(out.result.y) :
        out.result.y[i].tag = "num" /\ 2 * out.result.y[i].v >= Scale}

\* A distance along the scan axis in the unit of the width returned
\* (acceptance_angle returns mrad, its axis being in rad)
WidthOnAxis(span) ==
    IF out.op = "acceptance_angle" THEN 1000 * span ELSE span

\* C8: the FWHM an acceptance scan returns is the distance along the scan
\* axis between the first and the last sample whose efficiency is at least
\* 0.5, and it is NaN when no sample qualifies.
WidthIsSpanAboveHalf ==
    Scanned =>
        /\ Qualifying = {} => out.result.width = NaN
        /\ Qualifying # {} =>
            \E lo \in Qualifying, hi \in Qualifying :
                /\ \A i \in Qualifying : lo <= i /\ i <= hi
                /\ out.result.width.tag = "num"
                /\ out.result.width.v = WidthOnAxis(out.result.x[hi].v - out.result.x[lo].v)

\* A scan has returned a curve of which some samples, more than one, are at
\* or above half maximum and some are not
WidthMeasured ==
    /\ Scanned
    /\ Cardinality(Qualifying) > 1
    /\ Cardinality(Qualifying) < Len(out.result.y)

\* The scan is of a mode whose critical angle is defined
AngleDefined == theta_dict[Lookup(theta_dict, out.target_mode)].theta.tag = "num"

\* The nominal value a scan is built around
Nominal ==
    IF out.op = "acceptance_angle"
    THEN Deg2Rad(theta_dict[Lookup(theta_dict, out.target_mode)].theta.v)
    ELSE IF out.op = "acceptance_wavelength" THEN cfg.wavelength1_nm
    ELSE cfg.temperature

\* C9: every acceptance scan builds an axis of exactly 2 * step samples with
\* the constant spacing res, symmetric about the nominal value: for every
\* sample at nominal + d there is one at nominal - d.
AxisIsSymmetric ==
    (Scanned /\ AngleDefined) =>
        /\ Len(out.result.x) = 2 * out.step
        /\ \A i \in 1..(Len(out.result.x) - 1) :
            out.result.x[i + 1].v - out.result.x[i].v = out.res
        /\ \A i \in 1..Len(out.result.x) : \E j \in 1..Len(out.result.x) :
            out.result.x[i].v - Nominal = Nominal - out.result.x[j].v

---------------------------------------------------------------------------
(* An acceptance scan repeated over the same span with twice the samples:  *)
(* probe keeps the call made with (step, res), out the one made with       *)
(* (2 * step, res / 2)                                                     *)

\* One call of an acceptance scan of the solver
AcceptanceCall(op, target_mode, step, res) ==
    [op |-> op, target_mode |-> target_mode, step |-> step, res |-> res,
     result |-> IF op = "acceptance_angle"
                THEN acceptance_angle(cfg, solver, theta_dict, target_mode, step, res)
                ELSE IF op = "acceptance_wavelength"
                THEN acceptance_wavelength(cfg, solver, theta_dict, target_mode, step, res)
                ELSE acceptance_temperature(cfg, solver, theta_dict, target_mode, step, res)]

\* The resolutions a scan of each kind is called with
ResolutionsOf(op) ==
    IF op = "acceptance_angle" THEN AngleRes
    ELSE IF op = "acceptance_wavelength" THEN WavelengthRes
    ELSE TemperatureRes

\* simulation.acceptance_*(theta_dict, mode, step, res)
CallCoarse ==
    /\ pc = "idle"
    /\ probe = NoOutput
    /\ \E op \in {"acceptance_angle", "acceptance_wavelength", "acceptance_temperature"} :
        \E target_mode \in Keys(theta_dict), step \in 1..MaxStep, res \in ResolutionsOf(op) :
            /\ out' = AcceptanceCall(op, target_mode, step, res)
            /\ probe' = out'
    /\ pc' = "returned"
    /\ UNCHANGED <<cfg, solver, theta_dict>>

\* simulation.acceptance_*(theta_dict, mode, 2 * step, res / 2)
CallFine ==
    /\ pc = "idle"
    /\ probe # NoOutput
    /\ out' = AcceptanceCall(probe.op, probe.target_mode, 2 * probe.step, probe.res \div 2)
    /\ pc' = "returned"
    /\ UNCHANGED <<cfg, solver, theta_dict, probe>>

CriticalAngleOnce == theta_dict = <<>> /\ CriticalAngle

NextRefine ==
    \/ CriticalAngleOnce
    \/ CallCoarse
    \/ CallFine
    \/ Return

SpecRefine == Init /\ [][NextRefine]_vars

\* The scan with twice the samples has returned
Refined == pc = "returned" /\ probe # NoOutput /\ out.op = probe.op /\ out.step = 2 * probe.step

\* The sample spacing of the first scan in the unit of the width returned
Spacing == IF probe.op = "acceptance_angle" THEN 1000 * probe.res ELSE probe.res

AboveHalf(result) ==
    {i \in 1..Len(result.y) : result.y[i].tag = "num" /\ 2 * result.y[i].v >= Scale}

---------------------------------------------------------------------------
(* d_eff on its own: applied to a mapping of two modes under a crystal_db  *)
(* whose entry for the crystal is the constructed one or names a point     *)
(* group without formulas                                                  *)

DEffConfigs ==
    { SimulationConfig("BBO", 1064000, 2000, "XZ", "SHG", None, "default"),
      SimulationConfig("KDP", 1064000, 2000, "XZ", "SHG", None, "default"),
      SimulationConfig("LBO", 1064000, 2000, "XY", "SHG", None, "default"),
      SimulationConfig("LBO", 1064000, 2000, "XZ", "SHG", None, "default"),
      SimulationConfig("KTP", 1064000, 2000, "YZ", "SHG", None, "default") }

\* Mode identifiers passed to d_eff: the four of an SHG solver, the two
\* mixed ones with the input beams exchanged, one that names crystal axes,
\* one without an arrow and one with a single input beam
DEffModes ==
    { ModeName("O", 1064, "O", 1064, "E", 532, 1),
      ModeName("E", 1064, "E", 1064, "O", 532, 1),
      ModeName("O", 1064, "E", 1064, "E", 532, 2),
      ModeName("O", 1064, "E", 1064, "O", 532, 2),
      ModeName("E", 1064, "O", 1064, "E", 532, 2),
      ModeName("E", 1064, "O", 1064, "O", 532, 2),
      ModeName("X", 1064, "X", 1064, "Y", 532, 1),
      << <<"O", 0>>, <<"nm", 1064>>, <<"+", 0>>, <<"E", 0>>, <<"nm", 1064>> >>,
      << <<"O", 0>>, <<"nm", 1064>>, <<"->", 0>>, <<"E", 0>>, <<"nm", 532>> >> }

\* Critical angles passed to d_eff, in micro-degrees
DEffAngles == {NaN, Num(22800000), Num(60000000)}

InitDEff ==
    /\ cfg \in DEffConfigs
    /\ solver \in {SolverInit(cfg),
                   [SolverInit(cfg) EXCEPT !.crystal_db[cfg.crystal_name].group = "6mm"]}
    /\ theta_dict = <<>>
    /\ pc = "idle"
    /\ out = NoOutput
    /\ \E m1 \in DEffModes, m2 \in DEffModes, a1 \in DEffAngles, a2 \in DEffAngles,
          phi \in {None, Num(0), Num(45000000)} :
        /\ m1 # m2
        /\ probe = [theta_critical_dict |-> << [mode |-> m1, theta |-> a1],
                                                [mode |-> m2, theta |-> a2] >>,
                    selected_phi |-> phi]

\* solver.d_eff(theta_critical_dict, selected_phi)
CallDEff ==
    /\ pc = "idle"
    /\ out' = [op |-> "d_eff", theta_critical_dict |-> probe.theta_critical_dict,
               selected_phi |-> probe.selected_phi,
               result |-> d_eff(cfg, solver, probe.theta_critical_dict, probe.selected_phi)]
    /\ pc' = "returned"
    /\ UNCHANGED <<cfg, solver, theta_dict, probe>>

NextDEff ==
    \/ CallDEff
    \/ Return

SpecDEff == InitDEff /\ [][NextDEff]_vars

\* C12: for every mode of the mapping passed to d_eff, the modes whose
\* critical angle is NaN included, the coefficient returned is a
\* non-negative number.
CoefficientNonNegative ==
    out.op = "d_eff" =>
        /\ out.result.err = ""
        /\ \A i \in 1..Len(out.result.result) :
            /\ out.result.result[i].d_eff.tag = "num"
            /\ out.result.result[i].d_eff.v >= 0


\* The point groups d_eff has formulas for
SupportedGroups == {"4bar2m", "3m", "mm2"}

\* The identifier's matching type cannot be recognised: the arrow is
\* missing, or fewer than two letters O, E precede it, or none follows it
Unrecognised(mode) ==
    \/ \A i \in 1..Len(mode) : mode[i][1] # "->"
    \/ \E a \in 1..Len(mode) :
        /\ mode[a][1] = "->"
        /\ \A b \in 1..(a - 1) : mode[b][1] # "->"
        /\ \/ Cardinality({i \in 1..(a - 1) : mode[i][1] \in {"O", "E"}}) < 2
           \/ \A i \in (a + 1)..Len(mode) : mode[i][1] \notin {"O", "E"}

\* C13: d_eff raises nothing and returns a coefficient of exactly zero for
\* a crystal whose point group is none of the supported ones, and for a mode
\* identifier whose matching type cannot be recognised.
ZeroWhenUnsupported ==
    out.op = "d_eff" =>
        /\ out.result.err = ""
        /\ Len(out.result.result) = Len(out.theta_critical_dict)
        /\ \A i \in 1..Len(out.result.result) :
            ( \/ solver.crystal_db[cfg.crystal_name].group \notin SupportedGroups
              \/ Unrecognised(out.theta_critical_dict[i].mode) ) =>
                out.result.result[i].d_eff = Num(0)

\* d_eff has returned, under a point group without formulas, the
\* coefficients of a mode it recognises at a defined angle and of a mode it
\* does not recognise
UnsupportedReturned ==
    /\ out.op = "d_eff"
    /\ solver.crystal_db[cfg.crystal_name].group \notin SupportedGroups
    /\ \E i \in 1..Len(out.theta_critical_dict), j \in 1..Len(out.theta_critical_dict) :
        /\ ~Unrecognised(out.theta_critical_dict[i].mode)
        /\ out.theta_critical_dict[i].theta.tag = "num"
        /\ Unrecognised(out.theta_critical_dict[j].mode)

\* The identifier with its two input beams exchanged
Exchanged(mode) ==
    [i \in 1..Len(mode) |->
        IF i \in {1, 2} THEN mode[i + 3] ELSE IF i \in {4, 5} THEN mode[i - 3] ELSE mode[i]]

\* Two entries of the mapping that differ only in the order of their two
\* input beams, one O + E and the other E + O, at the same critical angle
Mirrored(i, j) ==
    /\ Len(out.theta_critical_dict[i].mode) = 9
    /\ out.theta_critical_dict[i].mode[1][1] = "O"
    /\ out.theta_critical_dict[i].mode[4][1] = "E"
    /\ out.theta_critical_dict[j].mode = Exchanged(out.theta_critical_dict[i].mode)
    /\ out.theta_critical_dict[j].theta = out.theta_critical_dict[i].theta

\* C14: the classification of d_eff does not depend on the order of the
\* input beams: two identifiers that differ only in that order (O + E and
\* E + O) get the same type label and the same coefficient.
TypeIndependentOfOrder ==
    (out.op = "d_eff" /\ out.result.err = "") =>
        \A i \in 1..Len(out.theta_critical_dict), j \in 1..Len(out.theta_critical_dict) :
            Mirrored(i, j) =>
                /\ out.result.result[i].mode_type = out.result.result[j].mode_type
                /\ out.result.result[i].d_eff = out.result.result[j].d_eff

\* d_eff has returned a coefficient other than zero for an O + E mode and
\* for the E + O mode that mirrors it
MirroredReturned ==
    /\ out.op = "d_eff"
    /\ out.result.err = ""
    /\ \E i \in 1..Len(out.theta_critical_dict), j \in 1..Len(out.theta_critical_dict) :
        /\ Mirrored(i, j)
        /\ out.result.result[i].d_eff.tag = "num"
        /\ out.result.result[i].d_eff.v > 0


---------------------------------------------------------------------------
(* Properties of delta_n's argument checks *)

\* A polarization label of the identifier is one of the letters
HasLabel(mode, letters) == \E i \in 1..Len(mode) : mode[i][1] \in letters

\* The axis-locked identifiers the launcher builds
AxisModes == UNION {Range(all_modes_for_axis(cfg, a)) : a \in {"X", "Y", "Z"}}

Malformed(mode) ==
    \/ \A i \in 1..Len(mode) : mode[i][1] # "->"
    \/ \A i \in 1..Len(mode) : mode[i][1] # "+"
    \/ ~HasLabel(mode, {"O", "E", "X", "Y", "Z"})

\* C16: delta_n signals an error for every malformed mode identifier.
MalformedRefused ==
    (out.op = "delta_n" /\ Malformed(out.mode)) => out.result.err # ""


---------------------------------------------------------------------------
(* Properties of the walk-off and of the scans at an undefined angle *)

\* The label of the k-th beam of an enumerated identifier: its first, its
\* second input beam, its output beam
LabelOf(mode_name, k) == mode_name[3 * k - 2][1]

\* C17: for every mode with a defined critical angle, in every plane and at
\* every wavelength, walkoff_angle reports a walk-off of exactly 0 for each
\* beam labelled ordinary.
OrdinaryWalkoffZero ==
    (out.op = "walkoff_angle" /\ out.result.err = "") =>
        \A i \in 1..Len(theta_dict) :
            theta_dict[i].theta.tag = "num" =>
                /\ out.result.result[i].kind = "text"
                /\ \A k \in 1..3 :
                    LabelOf(theta_dict[i].mode, k) = "O" =>
                        out.result.result[i].beams[k] = [pol |-> "O", deg |-> 0, mrad |-> 0]

\* walkoff_angle has returned, for a mode with a defined angle whose first
\* input beam is ordinary and whose second is extraordinary, a walk-off
\* other than 0 for the second
OrdinaryBesideExtraordinary ==
    /\ out.op = "walkoff_angle"
    /\ out.result.err = ""
    /\ \E i \in 1..Len(theta_dict) :
        /\ theta_dict[i].theta.tag = "num"
        /\ LabelOf(theta_dict[i].mode, 1) = "O"
        /\ LabelOf(theta_dict[i].mode, 2) = "E"
        /\ out.result.result[i].beams[2].mrad # 0

\* C18: for a mode whose critical angle is NaN, walkoff_angle reports an
\* undefined value for that mode, and acceptance_angle,
\* acceptance_wavelength and acceptance_temperature return a NaN bandwidth;
\* none of them raises an exception.
UndefinedAngleGivesUndefined ==
    /\ out.op = "walkoff_angle" =>
        /\ out.result.err = ""
        /\ \A i \in 1..Len(theta_dict) :
            theta_dict[i].theta.tag = "nan" => out.result.result[i].kind = "nan"
    /\ (out.op \in AcceptanceScans /\ ~AngleDefined) =>
        /\ out.result.err = ""
        /\ out.result.width = NaN
        /\ out.result.derived = NaN

\* An acceptance scan of a mode whose critical angle is NaN has returned
UndefinedAngleScanned ==
    /\ out.op \in AcceptanceScans
    /\ ~AngleDefined
    /\ out.result.err = ""
    /\ Len(out.result.y) = 2 * out.step

---------------------------------------------------------------------------
(* src/launcher.py in temperature-matching mode: one run of the script     *)
(* after another.  probe holds the arguments the configuration was         *)
(* constructed from, out the session state and the locals of the run, pc   *)
(* the position in the script.                                             *)

\* The arguments of SimulationConfig(...): those the side bar passes in
\* temperature-matching mode (20 degrees, plane XZ, wavelength2 None under
\* SHG), and those of a caller that passes a wavelength2 whatever the process
ConstructorArgs ==
    { [crystal_name |-> a[1], wavelength |-> a[2], temperature |-> 2000, plane |-> "XZ",
       process_type |-> a[3], wavelength2 |-> a[4], sellmeier_source |-> a[5]] :
        a \in { <<"LBO", 1064000, "SHG", None, "Thorlabs">>,
                <<"LBO", 1064000, "SHG", Num(532000), "Thorlabs">>,
                <<"LBO", 1064000, "SFG", Num(1064000), "Thorlabs">>,
                <<"KTP", 989800, "SHG", None, "default">>,
                <<"KTP", 989800, "SHG", Num(1064000), "default">> } }

\* user_config = SimulationConfig(crystal_name=..., wavelength=..., ...)
user_config(a) ==
    SimulationConfig(a.crystal_name, a.wavelength, a.temperature, a.plane,
                     a.process_type, a.wavelength2, a.sellmeier_source)

\* The sliders and number inputs of the bandwidth analysis: steps, and
\* resolutions in 0.01 deg C, picometres and micro-radians
BandwidthSettings ==
    { [temp_step |-> 1, temp_res |-> 100, wl_step |-> 1, wl_res |-> 1000,
       ang_step |-> n, ang_res |-> 250] : n \in 1..MaxStep }

\* temp_match_results: temperature_phase_matching of every mode of the axis
temp_match_results(c, s, range, fixed_axis) ==
    [i \in 1..Len(all_modes_for_axis(c, fixed_axis)) |->
        [mode |-> all_modes_for_axis(c, fixed_axis)[i],
         result |-> temperature_phase_matching(c, s, all_modes_for_axis(c, fixed_axis)[i],
                        range[1], range[2], range[3], fixed_axis)]]

\* modes_with_match: the modes without error that have a matching temperature
modes_with_match(results) ==
    {i \in 1..Len(results) :
        results[i].result.err = "" /\ results[i].result.matching_temperatures # <<>>}

\* The session state before any result, and with the results of a run
Session(fixed_axis, results) ==
    [op |-> "session", fixed_axis |-> fixed_axis, temp_match_results |-> results,
     selected |-> 0, settings |-> <<>>, original_temp |-> None, original_plane |-> None,
     acc_temp |-> NaN, acc_wl |-> NaN, angle_results |-> <<>>, error |-> "",
     ncpm_all_calculated |-> FALSE]

\* str.replace(old, new) on the letters of an identifier
Replace(text, old, new) ==
    [i \in 1..Len(text) |-> IF text[i][1] = old THEN <<new, text[i][2]>> ELSE text[i]]

\* planes: the two planes that hold the propagation axis
planes(fixed_axis) ==
    IF fixed_axis = "X" THEN <<"XY", "XZ">>
    ELSE IF fixed_axis = "Y" THEN <<"XY", "YZ">>
    ELSE <<"XZ", "YZ">>

\* plane_to_static_axis
plane_to_static_axis == [XY |-> "Z", XZ |-> "Y", YZ |-> "X"]

\* oe_mode: the selected identifier with the first input letter and the
\* output letter replaced by O (the letter of the axis normal to the plane)
\* or E
oe_mode(selected_mode, plane) ==
    LET mode_parts == Split(selected_mode, "->")
        input_pol  == BeforeParenthesis(Split(mode_parts[1], "+")[1])[1][1]
        output_pol == BeforeParenthesis(mode_parts[2])[1][1]
        input_oe   == IF input_pol = plane_to_static_axis[plane] THEN "O" ELSE "E"
        output_oe  == IF output_pol = plane_to_static_axis[plane] THEN "O" ELSE "E"
    IN  Replace(Replace(selected_mode, input_pol, input_oe), output_pol, output_oe)

\* theta_axis: the polar angle of each offset of the scan
theta_axis(fixed_axis, plane, angle_offset) ==
    [i \in 1..Len(angle_offset) |->
        IF (fixed_axis = "X" /\ plane = "XZ") \/ (fixed_axis = "Y" /\ plane = "YZ")
        THEN Num(PiHalf - angle_offset[i].v)
        ELSE IF fixed_axis = "Y" THEN Num(PiHalf - Abs(angle_offset[i].v))
        ELSE Num(Abs(angle_offset[i].v))]

\* The body of the loop over the planes once the plane is set: the mismatch
\* of the O/E identifier at each angle, the efficiency and its width
AngleResult(c, s, selected_mode, fixed_axis, angle_offset) ==
    AngleWidths(ScanCurve(c, angle_offset,
        [i \in 1..Len(angle_offset) |->
            delta_n(c, s, oe_mode(selected_mode, c.plane),
                    theta_axis(fixed_axis, c.plane, angle_offset)[i],
                    None, None, None, None)]))

\* simulation.key_static, simulation.key_cos, simulation.key_sin =
\* simulation.plane_config[plane]
SetKeys(s, plane) ==
    [s EXCEPT !.key_static = plane_config[plane][1],
              !.key_cos = plane_config[plane][2],
              !.key_sin = plane_config[plane][3]]

InitDashboard ==
    /\ probe \in ConstructorArgs
    /\ cfg = user_config(probe)
    /\ solver = SolverInit(cfg)
    /\ theta_dict = <<>>
    /\ pc = "idle"
    /\ out = Session("", <<>>)

\* The run button in temperature-matching mode, lines 372-459
RunTemperatureMatching ==
    /\ pc = "idle"
    /\ \E fixed_axis \in {"X", "Y", "Z"}, range \in TemperatureRanges :
        out' = Session(fixed_axis, temp_match_results(cfg, solver, range, fixed_axis))
    /\ pc' = "results"
    /\ UNCHANGED <<cfg, solver, theta_dict, probe>>

\* Lines 1669-1712: a mode with a matching temperature selected, the
\* settings read, and the temperature of the configuration overwritten
OverrideTemperature ==
    /\ pc \in {"idle", "results"}
    /\ \E selected \in modes_with_match(out.temp_match_results),
          settings \in BandwidthSettings :
        /\ out' = [out EXCEPT !.selected = selected, !.settings = settings,
                              !.original_temp = Num(cfg.temperature)]
        /\ cfg' = [cfg EXCEPT !.temperature =
                      out.temp_match_results[selected].result.matching_temperatures[1]]
    /\ pc' = "site"
    /\ UNCHANGED <<solver, theta_dict, probe>>

\* Line 1715, st.button(...) False: the script runs on to its end
ButtonNotPressed ==
    /\ pc = "site"
    /\ pc' = "left"
    /\ UNCHANGED <<cfg, solver, theta_dict, out, probe>>

\* Lines 1715-1739: the button pressed, the temperature and the wavelength
\* bandwidth computed, and the plane saved
ButtonPressed ==
    /\ pc = "site"
    /\ LET mode == out.temp_match_results[out.selected].mode
           fake_theta_dict == <<[mode |-> mode, theta |-> Num(0)]>>
           acc_temp == acceptance_temperature(cfg, solver, fake_theta_dict, mode,
                           out.settings.temp_step, out.settings.temp_res)
           acc_wl == acceptance_wavelength(cfg, solver, fake_theta_dict, mode,
                           out.settings.wl_step, out.settings.wl_res)
       IN  IF acc_temp.err # ""
           THEN /\ out' = [out EXCEPT !.error = acc_temp.err]
                /\ pc' = "except"
           ELSE IF acc_wl.err # ""
           THEN /\ out' = [out EXCEPT !.acc_temp = acc_temp.width, !.error = acc_wl.err]
                /\ pc' = "except"
           ELSE /\ out' = [out EXCEPT !.acc_temp = acc_temp.width, !.acc_wl = acc_wl.width,
                                      !.original_plane = Num(cfg.plane)]
                /\ pc' = "planes"
    /\ UNCHANGED <<cfg, solver, theta_dict, probe>>

\* Lines 1764-1864: one turn of the loop over the planes
ScanPlane ==
    /\ pc = "planes"
    /\ Len(out.angle_results) < Len(planes(out.fixed_axis))
    /\ LET plane == planes(out.fixed_axis)[Len(out.angle_results) + 1]
           c == [cfg EXCEPT !.plane = plane]
           s == SetKeys(solver, plane)
           r == AngleResult(c, s, out.temp_match_results[out.selected].mode, out.fixed_axis,
                            ScanAxis(Num(0), out.settings.ang_step, out.settings.ang_res))
       IN  /\ cfg' = c
           /\ solver' = s
           /\ IF r.err # ""
              THEN /\ out' = [out EXCEPT !.error = r.err]
                   /\ pc' = "except"
              ELSE /\ out' = [out EXCEPT !.angle_results =
                                 Append(@, [plane |-> plane, acc_ang |-> r.width,
                                            acc_ang_deg |-> r.derived])]
                   /\ pc' = "planes"
    /\ UNCHANGED <<theta_dict, probe>>

\* Lines 1866-1875: after the loop, the plane and the keys put back
RestorePlane ==
    /\ pc = "planes"
    /\ Len(out.angle_results) = Len(planes(out.fixed_axis))
    /\ cfg' = [cfg EXCEPT !.plane = out.original_plane.v]
    /\ solver' = SetKeys(solver, out.original_plane.v)
    /\ out' = [out EXCEPT !.ncpm_all_calculated = TRUE]
    /\ pc' = "finally"
    /\ UNCHANGED <<theta_dict, probe>>

\* Lines 1876-1882: the except clause where an exception was raised, and
\* the finally clause
Finally ==
    /\ pc \in {"except", "finally"}
    /\ cfg' = [cfg EXCEPT !.temperature = out.original_temp.v,
                          !.plane = IF out.original_plane.tag # "none"
                                    THEN out.original_plane.v ELSE @]
    /\ pc' = "left"
    /\ UNCHANGED <<solver, theta_dict, out, probe>>

\* The script run again, lines 324-338: the configuration and the solver
\* constructed anew, the session state kept
Rerun ==
    /\ pc \in {"left", "results"}
    /\ pc = "results" => modes_with_match(out.temp_match_results) = {}
    /\ cfg' = user_config(probe)
    /\ solver' = SolverInit(user_config(probe))
    /\ out' = [Session(out.fixed_axis, out.temp_match_results)
                  EXCEPT !.ncpm_all_calculated = out.ncpm_all_calculated]
    /\ pc' = "idle"
    /\ UNCHANGED <<theta_dict, probe>>

NextDashboard ==
    \/ RunTemperatureMatching
    \/ OverrideTemperature
    \/ ButtonNotPressed
    \/ ButtonPressed
    \/ ScanPlane
    \/ RestorePlane
    \/ Finally
    \/ Rerun

SpecDashboard == InitDashboard /\ [][NextDashboard]_vars

\* C19: once the configuration is constructed, and after any sequence of
\* dashboard and solver operations, wavelength_out_nm is 1 / (1/wavelength1_nm
\* + 1/wavelength2_nm), and under SHG wavelength2_nm is wavelength1_nm
\* whatever wavelength2 argument was passed.
OutputWavelengthDerived ==
    /\ cfg.wavelength_out_nm = Harmonic(cfg.wavelength1_nm, cfg.wavelength2_nm)
    /\ cfg.process_type = "SHG" => cfg.wavelength2_nm = cfg.wavelength1_nm

\* A configuration constructed for SHG with another wavelength2, on which
\* the dashboard has overwritten the temperature and the plane
SecondWavelengthIgnored ==
    /\ probe.process_type = "SHG"
    /\ probe.wavelength2.tag = "num"
    /\ probe.wavelength2.v # probe.wavelength
    /\ cfg.temperature # probe.temperature
    /\ cfg.plane # probe.plane
    /\ out.angle_results # <<>>

\* C20: when the bandwidth analysis call site is left, cfg.temperature and
\* cfg.plane hold the values they had before it, on every path: button not
\* pressed, analysis completed, analysis raised an exception.
OverridesRestored ==
    pc = "left" => (cfg.temperature = probe.temperature /\ cfg.plane = probe.plane)

---------------------------------------------------------------------------
(* The solver's operations and the state they run on                       *)

\* C21: delta_n, criticalangle, walkoff_angle, d_eff, acceptance_angle,
\* acceptance_wavelength, acceptance_temperature and
\* temperature_phase_matching leave every field of the configuration and of
\* the solver as it was, when they return and when they raise.
SolverCallsKeepState ==
    [][(pc = "idle" /\ pc' = "returned") => (cfg' = cfg /\ solver' = solver)]_vars

\* A call has raised, and the configuration and the solver are those of
\* the construction
RaisedOnStateKept ==
    /\ pc = "returned"
    /\ out.op \in {"delta_n", "temperature_phase_matching"}
    /\ out.result.err # ""
    /\ cfg \in Configs
    /\ solver = SolverInit(cfg)

---------------------------------------------------------------------------
(* The enumeration of the angle-tunable modes                              *)

\* The number of modes of a process: 4 under SHG, 6 under SFG
ModeCount(c) == IF c.process_type = "SHG" THEN 4 ELSE 6

\* C22: the solver enumerates 4 modes under SHG and 6 under SFG, their
\* identifiers pairwise distinct, and criticalangle returns that many
\* entries, for every pair of input wavelengths.
ModesEnumerated ==
    /\ Len(solver.mode_names) = ModeCount(cfg)
    /\ \A i, j \in 1..Len(solver.mode_names) :
        i # j => solver.mode_names[i] # solver.mode_names[j]
    /\ out.op = "criticalangle" => Len(out.result) = ModeCount(cfg)

---------------------------------------------------------------------------
(* The wavelength slots of the input beams along a wavelength scan        *)

\* delta_n of the scan's sample at first wavelength wl binds the first
\* beam of the mode to the first wavelength slot
BoundInOrder(target_mode, wl) ==
    WavelengthSample(cfg, solver, target_mode,
        Radians(theta_dict[Lookup(theta_dict, target_mode)].theta),
        wl, Wavelength2Of(cfg, wl)).actual_wl1 = wl

\* C23: during acceptance_wavelength under SFG, delta_n binds the two input
\* beams of the mode to the same wavelength slots at every sample of the
\* scan as at the zero-deviation sample.
BindingKeptAlongScan ==
    (out.op = "acceptance_wavelength" /\ cfg.process_type = "SFG" /\ out.result.err = "") =>
        \A i \in 1..Len(out.result.x) :
            BoundInOrder(out.target_mode, out.result.x[i].v)
                <=> BoundInOrder(out.target_mode, cfg.wavelength1_nm)

---------------------------------------------------------------------------
(* The matching temperatures of a temperature scan                         *)

\* C24: every temperature temperature_phase_matching reports lies between
\* two adjacent grid temperatures whose mismatch samples have opposite
\* signs or include a zero, and within the caller's range [temp_min,
\* temp_max].
MatchingTemperatureBracketed ==
    (out.op = "temperature_phase_matching" /\ out.result.err = "") =>
        \A k \in 1..Len(out.result.matching_temperatures) :
            LET t == out.result.matching_temperatures[k]
            IN  /\ \E i \in 1..(Len(out.result.temperature_axis) - 1) :
                    /\ out.result.temperature_axis[i] <= t
                    /\ t <= out.result.temperature_axis[i + 1]
                    /\ \/ (out.result.phase_mismatch[i] <= 0
                            /\ out.result.phase_mismatch[i + 1] >= 0)
                       \/ (out.result.phase_mismatch[i] >= 0
                            /\ out.result.phase_mismatch[i + 1] <= 0)
                /\ out.range[1] <= t
                /\ t <= out.range[2]

---------------------------------------------------------------------------
(* The solver's axis keys and the plane of the configuration               *)

\* C25: whenever a solver operation is invoked, and after a dashboard call
\* site has finished, normally or by an exception, the solver's axis keys
\* (key_static, key_cos, key_sin) are plane_config[cfg.plane].
AxisKeysFollowPlane ==
    <<solver.key_static, solver.key_cos, solver.key_sin>> = plane_config[cfg.plane]

---------------------------------------------------------------------------
(* The conversion of an axis-locked identifier to O/E labels              *)

\* C26: at the axis-locked angle-bandwidth call site, for the mode selected
\* and each of the two planes that hold the propagation axis, the converted
\* identifier has only O/E labels, each of the three beams being labelled O
\* exactly when its polarization axis is the normal of the plane, and
\* delta_n evaluates it without error.
ConvertedToOE ==
    out.selected # 0 =>
        \A i \in 1..2 :
            LET plane    == planes(out.fixed_axis)[i]
                selected == out.temp_match_results[out.selected].mode
            IN  /\ \A k \in 1..3 :
                    LabelOf(oe_mode(selected, plane), k) =
                        IF LabelOf(selected, k) = plane_to_static_axis[plane]
                        THEN "O" ELSE "E"
                /\ delta_n([cfg EXCEPT !.plane = plane], SetKeys(solver, plane),
                           oe_mode(selected, plane), Num(PiHalf),
                           None, None, None, None).err = ""

---------------------------------------------------------------------------
(* The samples counted toward the width                                    *)

\* C27: the samples counted toward the FWHM form one contiguous run that
\* holds the zero-deviation sample: every sample between the first and the
\* last sample at or above half maximum is at or above half maximum too.
QualifyingRunContiguous ==
    (Scanned /\ Qualifying # {}) =>
        /\ (out.step + 1) \in Qualifying
        /\ \A i \in Qualifying, k \in Qualifying :
            \A j \in i..k : j \in Qualifying

---------------------------------------------------------------------------
(* src/launcher.py as Streamlit runs it: the whole script once for every  *)
(* change of a widget and every press of a button.  cfg and solver are the *)
(* user_config and simulation the script run has constructed from the side *)
(* bar, theta_dict and out the session state that outlives the script run, *)
(* pc the position in the script.  probe keeps the side bar, and for each  *)
(* stored result the side bar it was computed under.                       *)

\* The side bar: crystal, source, process, wavelengths, matching method and
\* what goes with it (temperature, plane and phi; or the axis and the range)
Sidebars ==
    { [crystal_name |-> a[1], wavelength |-> 1064000, temperature |-> 2000, plane |-> a[2],
       process_type |-> a[3], wavelength2 |-> a[4], sellmeier_source |-> a[5],
       matching_method |-> a[6], phi |-> Num(a[7]),
       fixed_axis |-> "X", range |-> <<14000, 16000, 1000>>] :
        a \in { <<"LBO", "XY", "SHG", None, "default", "angle", 90000000>>,
                <<"BBO", "XZ", "SHG", None, "default", "angle", 45000000>>,
                <<"LBO", "XZ", "SHG", None, "Thorlabs", "temperature", 0>> } }

\* Lines 346-347 and the keys a run button stores: the session state of a
\* session in which nothing has run
NewSession ==
    [op |-> "session", has_run |-> FALSE, matching_method_run |-> "",
     walkoff_dict |-> <<>>, d_eff_dict |-> <<>>, temp_match_results |-> <<>>,
     all_bandwidths_calculated |-> FALSE, res_angle |-> None, res_wave |-> None,
     res_temp |-> None, error |-> ""]

\* What the try block of a run button has computed
Computed(theta, walkoff, coefficients, table) ==
    [theta_dict |-> theta, walkoff_dict |-> walkoff, d_eff_dict |-> coefficients,
     temp_match_results |-> table]

\* What probe holds besides the side bar: what the try block of the latest
\* run computed, the side bar the stored mapping was computed under, and
\* of the bandwidth results in the session state the mode, the side bar of
\* the solver that scanned and the side bar of the mapping it was passed
Provenance(sidebar) ==
    [sidebar |-> sidebar, computed |-> Computed(<<>>, <<>>, <<>>, <<>>), theta_by |-> None,
     target_mode |-> None, scan_by |-> None, scan_with |-> None]

InitLauncher ==
    /\ probe \in {Provenance(sidebar) : sidebar \in Sidebars}
    /\ cfg = user_config(probe.sidebar)
    /\ solver = SolverInit(cfg)
    /\ theta_dict = <<>>
    /\ pc = "idle"
    /\ out = NewSession

\* A widget of the side bar changed: the script runs again, lines 324-338
\* construct user_config and simulation anew, no button is pressed
SidebarChanged ==
    /\ pc = "idle"
    /\ \E sidebar \in Sidebars \ {probe.sidebar} :
        /\ probe' = [probe EXCEPT !.sidebar = sidebar]
        /\ cfg' = user_config(sidebar)
        /\ solver' = SolverInit(cfg')
    /\ out' = [out EXCEPT !.error = ""]
    /\ UNCHANGED <<theta_dict, pc>>

\* keys_to_clear, lines 352-354, among the keys of the session state
keys_to_clear == {"res_angle", "res_wave", "res_temp", "all_bandwidths_calculated"}

\* Lines 355-357: del st.session_state[key] for the keys to clear
Cleared(session, keys) ==
    [session EXCEPT !.res_angle = IF "res_angle" \in keys THEN None ELSE @,
                    !.res_wave = IF "res_wave" \in keys THEN None ELSE @,
                    !.res_temp = IF "res_temp" \in keys THEN None ELSE @,
                    !.all_bandwidths_calculated =
                        IF "all_bandwidths_calculated" \in keys THEN FALSE ELSE @,
                    !.walkoff_dict = IF "walkoff_dict" \in keys THEN <<>> ELSE @,
                    !.d_eff_dict = IF "d_eff_dict" \in keys THEN <<>> ELSE @,
                    !.temp_match_results = IF "temp_match_results" \in keys THEN <<>> ELSE @,
                    !.has_run = IF "has_run" \in keys THEN FALSE ELSE @,
                    !.error = ""]

\* The run button pressed, lines 349-357: the old results cleared
RunPressed ==
    /\ pc = "idle"
    /\ out' = Cleared(out, keys_to_clear)
    /\ theta_dict' = IF "theta_dict" \in keys_to_clear THEN <<>> ELSE theta_dict
    /\ probe' = [Provenance(probe.sidebar) EXCEPT !.theta_by = probe.theta_by]
    /\ pc' = "cleared"
    /\ UNCHANGED <<cfg, solver>>

\* Lines 362-371 once criticalangle has returned: the walk-off and the
\* coefficients stored one after the other, the except clause of line 462
\* when one of the two raises
AngleRun(session, walkoff, coefficients) ==
    IF walkoff.err # "" THEN [session EXCEPT !.error = walkoff.err]
    ELSE IF coefficients.err # ""
    THEN [session EXCEPT !.walkoff_dict = walkoff.result, !.error = coefficients.err]
    ELSE [session EXCEPT !.walkoff_dict = walkoff.result,
                         !.d_eff_dict = coefficients.result,
                         !.has_run = TRUE, !.matching_method_run = "angle"]

\* What the try block of an angle run has computed when it is left
AngleComputed(theta, walkoff, coefficients) ==
    IF walkoff.err # "" THEN Computed(theta, <<>>, <<>>, <<>>)
    ELSE IF coefficients.err # "" THEN Computed(theta, walkoff.result, <<>>, <<>>)
    ELSE Computed(theta, walkoff.result, coefficients.result, <<>>)

\* The try block of the run button in angle-matching mode, lines 360-371
RunAngleMatching ==
    /\ pc = "cleared"
    /\ probe.sidebar.matching_method = "angle"
    /\ \E theta \in {ThetaDict(run) : run \in criticalangle(cfg, solver, Len(EquationModes(solver)))} :
        /\ theta_dict' = theta
        /\ \E walkoff \in {walkoff_angle(cfg, theta)},
              coefficients \in {d_eff(cfg, solver, theta, probe.sidebar.phi)} :
            /\ out' = AngleRun(out, walkoff, coefficients)
            /\ probe' = [probe EXCEPT !.theta_by = probe.sidebar,
                            !.computed = AngleComputed(theta, walkoff, coefficients)]
    /\ pc' = "idle"
    /\ UNCHANGED <<cfg, solver>>

\* The try block of the run button in temperature-matching mode, lines
\* 372-459: each mode's exception is caught and stored as its result
RunTemperatureTable ==
    /\ pc = "cleared"
    /\ probe.sidebar.matching_method = "temperature"
    /\ \E table \in {temp_match_results(cfg, solver, probe.sidebar.range, probe.sidebar.fixed_axis)} :
        /\ out' = [out EXCEPT !.temp_match_results = table,
                              !.has_run = TRUE, !.matching_method_run = "temperature"]
        /\ probe' = [probe EXCEPT !.computed = Computed(<<>>, <<>>, <<>>, table)]
    /\ pc' = "idle"
    /\ UNCHANGED <<cfg, solver, theta_dict>>

\* valid_modes, lines 494-499: the modes whose stored angle is not nan
valid_modes(theta_critical_dict) ==
    {theta_critical_dict[i].mode : i \in {j \in 1..Len(theta_critical_dict) :
                                            theta_critical_dict[j].theta.tag # "nan"}}

\* The scan settings next to the bandwidth button, lines 1538-1554: steps,
\* and resolutions in micro-radians, picometres and 0.01 deg C
DefaultSettings ==
    [ang_step |-> 2, ang_res |-> 250, wl_step |-> 1, wl_res |-> 1000,
     temp_step |-> 1, temp_res |-> 100]

\* The try block of the bandwidth button, lines 1561-1589: the three scans
\* in turn, each stored before the next starts, the flag set after the last
Bandwidths(session, ang, wav, tem) ==
    IF ang.err # "" THEN [session EXCEPT !.error = ang.err]
    ELSE IF wav.err # "" THEN [session EXCEPT !.res_angle = ang, !.error = wav.err]
    ELSE IF tem.err # ""
    THEN [session EXCEPT !.res_angle = ang, !.res_wave = wav, !.error = tem.err]
    ELSE [session EXCEPT !.res_angle = ang, !.res_wave = wav, !.res_temp = tem,
                         !.all_bandwidths_calculated = TRUE, !.error = ""]

\* The bandwidth button of the angle-matching results, lines 1559-1589:
\* theta_dict is st.session_state.theta_dict, simulation the solver of this
\* script run
BandwidthPressed ==
    /\ pc = "idle"
    /\ out.has_run
    /\ out.matching_method_run = "angle"
    /\ \E target_mode_bandwidth \in valid_modes(theta_dict), b \in {DefaultSettings} :
        /\ out' = Bandwidths(out,
                    acceptance_angle(cfg, solver, theta_dict, target_mode_bandwidth,
                                     b.ang_step, b.ang_res),
                    acceptance_wavelength(cfg, solver, theta_dict, target_mode_bandwidth,
                                          b.wl_step, b.wl_res),
                    acceptance_temperature(cfg, solver, theta_dict, target_mode_bandwidth,
                                           b.temp_step, b.temp_res))
        /\ probe' = [probe EXCEPT !.target_mode = target_mode_bandwidth,
                                  !.scan_by = probe.sidebar,
                                  !.scan_with = probe.theta_by]
    /\ UNCHANGED <<cfg, solver, theta_dict, pc>>

NextLauncher ==
    \/ SidebarChanged
    \/ RunPressed
    \/ RunAngleMatching
    \/ RunTemperatureTable
    \/ BandwidthPressed

SpecLauncher == InitLauncher /\ [][NextLauncher]_vars

\* The results the page shows below the run button, lines 474-512 and
\* 1606-1622: those of the session state, by the method of the stored run
Shown ==
    IF ~out.has_run THEN Computed(<<>>, <<>>, <<>>, <<>>)
    ELSE IF out.matching_method_run = "angle"
    THEN Computed(theta_dict, out.walkoff_dict, out.d_eff_dict, <<>>)
    ELSE Computed(<<>>, <<>>, <<>>, out.temp_match_results)

\* The results of a run that the session state holds
Held == Computed(theta_dict, out.walkoff_dict, out.d_eff_dict, out.temp_match_results)

\* C28: once the run button is pressed the results of the earlier run are
\* cleared before the new ones are computed (after the clearing loop the
\* session state holds no result of a run), and when the run has finished
\* the page shows the results this run computed and no others.
ShownResultsOfThisRun ==
    /\ pc = "cleared" => Held = Computed(<<>>, <<>>, <<>>, <<>>)
    /\ (pc = "idle" /\ probe.computed # Computed(<<>>, <<>>, <<>>, <<>>)) => Shown = probe.computed

\* C29: whenever the bandwidth button has invoked the three acceptance
\* scans, the critical-angle mapping it passed was computed under the same
\* configuration (crystal, source, process, wavelengths, temperature,
\* plane) as that of the solver that evaluated the scans.
MappingOfScanningConfiguration ==
    probe.scan_by # None => user_config(probe.scan_with) = user_config(probe.scan_by)

\* The principal index of the axis a label names
PrincipalIndex(indices, label) ==
    IF label = "X" THEN indices.n_x ELSE IF label = "Y" THEN indices.n_y ELSE indices.n_z

\* C30: for an axis-locked (X/Y/Z) identifier delta_n returns, whatever
\* theta is; each beam's index is the principal index, at the beam's
\* wavelength and the temperature, of the axis its label names; and the
\* call, made with any theta in any plane, gives the result the same call
\* gives without theta with each of the three planes active.
AxisLockedIgnoresAngleAndPlane ==
    (out.op = "delta_n" /\ out.mode \in AxisModes) =>
        /\ out.result.err = ""
        /\ out.result.n1 = PrincipalIndex(GetIndices(cfg,
                Num(InEffect(out.wavelength1, cfg.wavelength1_nm)),
                Num(InEffect(out.temperature, cfg.temperature))), LabelOf(out.mode, 1))
        /\ out.result.n2 = PrincipalIndex(GetIndices(cfg,
                Num(InEffect(out.wavelength2, cfg.wavelength2_nm)),
                Num(InEffect(out.temperature, cfg.temperature))), LabelOf(out.mode, 2))
        /\ out.result.n_out = PrincipalIndex(GetIndices(cfg,
                Num(InEffect(out.wavelength_out, cfg.wavelength_out_nm)),
                Num(InEffect(out.temperature, cfg.temperature))), LabelOf(out.mode, 3))
        /\ \A plane \in DOMAIN plane_config :
            delta_n([cfg EXCEPT !.plane = plane], SetKeys(solver, plane), out.mode, None,
                    out.wavelength1, out.wavelength2, out.wavelength_out, out.temperature)
                = out.result

\* delta_n has returned the mismatch of an axis-locked identifier with two
\* different input axes, called with an angle in a plane other than XZ
AxisLockedEvaluated ==
    /\ out.op = "delta_n"
    /\ out.mode \in AxisModes
    /\ LabelOf(out.mode, 1) # LabelOf(out.mode, 2)
    /\ out.theta = Num(Pi \div 4)
    /\ cfg.plane # "XZ"
    /\ out.result.err = ""
    /\ out.result.value.tag = "num"

====
